---- MODULE Spec2Model ----
(***************************************************************************)
(* A model of the nfsshell session state machine (src/nfsshell.c): the     *)
(* process-wide session variables, the open/close operations on the MOUNT  *)
(* and NFS channels, and the command handlers that drive them.             *)
(***************************************************************************)
EXTENDS Integers, Sequences, FiniteSets, TLC

(***************************************************************************)
(* Bounds of the model.                                                    *)
(***************************************************************************)
\* bytes of file-handle data carried (NFS3_FHSIZE = FHSIZE3 = 64 in the protocol)
FhSize == 1

NULL == "NULL"

(***************************************************************************)
(* File handles.  nfs_fh3 is {data_len, data_val[NFS3_FHSIZE]}, fhandle3   *)
(* is {fhandle3_len, fhandle3_val[FHSIZE3]}.                               *)
(***************************************************************************)
Zeros(n) == [i \in 1..n |-> 0]

\* a variable in static storage, or a result buffer cleared before a call
ZeroNfsFh3 == [data_len |-> 0, data_val |-> Zeros(FhSize)]
ZeroFhandle3 == [fhandle3_len |-> 0, fhandle3_val |-> Zeros(FhSize)]

fhandle3_to_nfs_fh3(src) ==
    [data_len |-> src.fhandle3_len,
     data_val |-> [i \in 1..FhSize |-> src.fhandle3_val[i]]]

nfs_fh3copy(src) ==
    [data_len |-> src.data_len,
     data_val |-> [i \in 1..FhSize |-> src.data_val[i]]]

(***************************************************************************)
(* The remote server: a fixed file tree behind two exports.  The server    *)
(* names object n by the handle whose first data byte is n.                *)
(***************************************************************************)
Nodes == 1..6
NodeVal(n) == [i \in 1..FhSize |-> IF i = 1 THEN n ELSE 0]
NodeFh(n) == [data_len |-> FhSize, data_val |-> NodeVal(n)]
NodeFhandle3(n) == [fhandle3_len |-> FhSize, fhandle3_val |-> NodeVal(n)]

Paths == {"/a", "/b"}
ExportRoot(path) == IF path = "/a" THEN 1 ELSE 5

NodeType(n) == IF n = 3 THEN "NF3REG" ELSE "NF3DIR"

\* directory entries: <<directory, name, object>>
Entries == {<<1, <<"x">>, 2>>, <<1, <<"f">>, 3>>, <<2, <<"x">>, 4>>, <<2, <<"f">>, 3>>,
            <<5, <<"x">>, 6>>}

LookupErr(st) == [status |-> st, object |-> ZeroNfsFh3, type |-> "none"]
LookupOk(n) == [status |-> "NFS3_OK", object |-> NodeFh(n), type |-> NodeType(n)]

\* The server's LOOKUP3res for (dir, name).  A zero-length name is refused
\* by some servers and taken as the directory itself by others (emptyself).
ServerLookup(dir, name, emptyself) ==
    IF \A n \in Nodes : NodeFh(n) # dir THEN LookupErr("NFS3ERR_BADHANDLE")
    ELSE LET d == CHOOSE n \in Nodes : NodeFh(n) = dir IN
         IF NodeType(d) # "NF3DIR" THEN LookupErr("NFS3ERR_NOTDIR")
         ELSE IF name = <<>>
              THEN IF emptyself THEN LookupOk(d) ELSE LookupErr("NFS3ERR_ACCES")
         ELSE IF \E e \in Entries : e[1] = d /\ e[2] = name
              THEN LookupOk((CHOOSE e \in Entries : e[1] = d /\ e[2] = name)[3])
         ELSE LookupErr("NFS3ERR_NOENT")

(***************************************************************************)
(* Session state: the globals of nfsshell.c.                               *)
(***************************************************************************)
VARIABLES
    remotehost,        \* char *remotehost: NULL or the host name
    mntclient,         \* CLIENT *mntclient: "null", "live" or "destroyed" (dangling)
    nfsclient,         \* CLIENT *nfsclient: "null", "live" or "destroyed" (dangling)
    mountpath,         \* char *mountpath: NULL or the mount path
    mountpoint,        \* mountres3 *mountpoint: the last MNT result, or null
    directory_handle,  \* nfs_fh3 directory_handle
    transfersize,      \* int transfersize
    authtype, uid, gid,\* credentials
    running,           \* "running", "exit0", "exit1" or "crashed"
    log,               \* what the last command did, in order
    out,               \* what the last command printed
    cmd,               \* the last command and the replies it met
    pre,               \* the session as it was before the last command
    mounted_on,        \* history: the handle the session was mounted on
    remote,            \* the server: the file "g" of the export /a
    local,             \* the local working directory: name -> file
    last_put,          \* history: what the last completed put copied
    rtmax              \* the server: the read maximum of its last FSINFO reply

vars == <<remotehost, mntclient, nfsclient, mountpath, mountpoint,
          directory_handle, transfersize, authtype, uid, gid, running,
          log, out, cmd, pre, mounted_on, remote, local, last_put, rtmax>>

NullMountres == [null |-> TRUE, fhs_status |-> "none", fhandle |-> ZeroFhandle3]

\* the session as one record; log and out start empty for each command
Cur == [remotehost |-> remotehost, mntclient |-> mntclient,
        nfsclient |-> nfsclient, mountpath |-> mountpath,
        mountpoint |-> mountpoint, directory_handle |-> directory_handle,
        transfersize |-> transfersize, authtype |-> authtype,
        uid |-> uid, gid |-> gid, running |-> running,
        remote |-> remote, local |-> local, rtmax |-> rtmax,
        log |-> <<>>, out |-> <<>>, ret |-> 0]

Snapshot == [remotehost |-> remotehost, mntclient |-> mntclient,
             nfsclient |-> nfsclient, mountpath |-> mountpath,
             mountpoint |-> mountpoint, directory_handle |-> directory_handle,
             transfersize |-> transfersize, authtype |-> authtype,
             uid |-> uid, gid |-> gid]

\* a file that does not exist, and one holding the bytes d
NoFile == [exists |-> FALSE, data |-> <<>>]
File(d) == [exists |-> TRUE, data |-> d]
\* the names of the local working directory
LocalNames == {<<"l">>, <<"g">>, <<"f">>, <<"n">>}
NoLocalFiles == [n \in LocalNames |-> NoFile]
\* no put has completed since the remote files were last touched
NoPut == [name |-> <<>>, data |-> <<>>]

Ev(op, a) == [op |-> op, a |-> a]
Emit(s, op, a) == [s EXCEPT !.log = Append(@, Ev(op, a))]
Say(s, msg) == [s EXCEPT !.out = Append(@, msg)]
Ret(s, v) == [s EXCEPT !.ret = v]
\* a NULL pointer dereference ends the process; the handler does not return
Crash(s) == [s EXCEPT !.running = "crashed", !.ret = 0]
Exit(s, code) == [s EXCEPT !.running = code, !.ret = 0]

Ops(s) == {s.log[i].op : i \in 1..Len(s.log)}

Commit(s, c) ==
    /\ remotehost' = s.remotehost
    /\ mntclient' = s.mntclient
    /\ nfsclient' = s.nfsclient
    /\ mountpath' = s.mountpath
    /\ mountpoint' = s.mountpoint
    /\ directory_handle' = s.directory_handle
    /\ transfersize' = s.transfersize
    /\ authtype' = s.authtype
    /\ uid' = s.uid
    /\ gid' = s.gid
    /\ running' = s.running
    /\ log' = s.log
    /\ out' = s.out
    /\ cmd' = [c EXCEPT !.ret = s.ret]
    /\ pre' = Snapshot
    /\ mounted_on' = IF s.mountpath = NULL THEN ZeroNfsFh3
                     ELSE IF c.name \in {"mount", "handle"} /\ s.ret = 1
                     THEN s.directory_handle
                     ELSE mounted_on

    /\ remote' = s.remote
    /\ local' = s.local
    /\ rtmax' = s.rtmax
    /\ last_put' = IF c.name = "put"
                   THEN IF s.ret = 1
                        THEN [name |-> c.arg.argv[Len(c.arg.argv)],
                              data |-> s.local[c.arg.argv[1]].data]
                        ELSE NoPut
                   ELSE IF c.name \in {"get", "ls", "cat", "cd", "df"} THEN last_put
                   ELSE NoPut

Command(name, arg) == [name |-> name, arg |-> arg, ret |-> 0]

\* between commands nothing is remembered of the last one
NoCommand == Command("none", <<>>)
NoSnapshot == [remotehost |-> NULL, mntclient |-> "null", nfsclient |-> "null",
               mountpath |-> NULL, mountpoint |-> NullMountres,
               directory_handle |-> ZeroNfsFh3, transfersize |-> 0,
               authtype |-> "AUTH_UNIX", uid |-> -2, gid |-> -2]

(***************************************************************************)
(* create_authenticator: AUTH_UNIX only; anything else ends the process.   *)
(***************************************************************************)
create_authenticator(s) ==
    IF s.authtype = "AUTH_UNIX" THEN s
    ELSE Exit(Say(s, "create_authenticator: no secure nfs support"), "exit1")

\* a close_nfs that forgets the path but leaves the NFS client open
close_nfs_keeps_client(s) ==
    IF s.mountpath = NULL THEN s
    ELSE LET s1 == Emit(s, "UMNT", s.mountpath)
         IN  Emit([s1 EXCEPT !.mountpath = NULL], "free", "mountpath")

(***************************************************************************)
(* close_nfs: UMNT on the MOUNT channel, forget the path, destroy the NFS  *)
(* client.  The pointer nfsclient itself is left as it was.                *)
(***************************************************************************)
close_nfs(s) ==
    IF s.mountpath = NULL THEN s
    ELSE LET s1 == Emit(s, "UMNT", s.mountpath)
             s2 == Emit([s1 EXCEPT !.mountpath = NULL], "free", "mountpath")
         IN  IF s2.nfsclient # "null"
             THEN Emit([s2 EXCEPT !.nfsclient = "destroyed"], "NFS_DESTROY", "")
             ELSE s2

\* a close_mount that destroys the MOUNT client before it closes the NFS side
close_mount_client_first(s) ==
    LET s1 == IF s.mntclient # "null"
              THEN Emit([s EXCEPT !.mntclient = "destroyed"], "MNT_DESTROY", "")
              ELSE s
        s2 == IF s1.mountpath # NULL
              THEN LET u == Emit(s1, "UMNT", s1.mountpath)
                       f == Emit([u EXCEPT !.mountpath = NULL], "free", "mountpath")
                   IN  IF f.nfsclient # "null"
                       THEN Emit([f EXCEPT !.nfsclient = "destroyed"], "NFS_DESTROY", "")
                       ELSE f
              ELSE s1
    IN  Emit([s2 EXCEPT !.remotehost = NULL], "free", "remotehost")

(***************************************************************************)
(* close_mount: close the NFS side if mounted, forget the host, destroy    *)
(* the MOUNT client.  The pointer mntclient itself is left as it was.      *)
(***************************************************************************)
close_mount(s) ==
    LET s1 == IF s.mountpath # NULL THEN close_nfs(s) ELSE s
        s2 == Emit([s1 EXCEPT !.remotehost = NULL], "free", "remotehost")
    IN  IF s2.mntclient # "null"
        THEN Emit([s2 EXCEPT !.mntclient = "destroyed"], "MNT_DESTROY", "")
        ELSE s2

(***************************************************************************)
(* setup: take a socket on a privileged port, ask the portmapper of the    *)
(* server for the port of the program and connect the socket there.  The   *)
(* socket, or RPC_ANYSOCK, is left in ret.  env.setup is what happens:     *)
(* "nopriv" (privileged gives no socket), "refused" (the connect fails) or *)
(* "connected"; each setup call of one command meets the same.             *)
(***************************************************************************)
SetupOutcomes == {"nopriv", "refused", "connected"}
RPC_ANYSOCK == "RPC_ANYSOCK"
setup(s, type, prog, env) ==
    IF env.setup = "nopriv" THEN Ret(s, RPC_ANYSOCK)
    ELSE LET s1 == Emit(s, "GETPORT", [prog |-> prog, type |-> type])
             s2 == Emit(s1, "CONNECT", [prog |-> prog, type |-> type])
         IN  IF env.setup = "refused" THEN Ret(Say(s2, "connect"), RPC_ANYSOCK)
             ELSE Ret(s2, "connected")

(***************************************************************************)
(* open_mount.  A host that starts with a digit is taken as an address;    *)
(* any other is resolved, and the canonical name becomes remotehost.       *)
(***************************************************************************)
Hosts == {"10.0.0.1", "nfs"}
IsDigitHost(host) == host = "10.0.0.1"
HName(host) == "nfs.example.org"

\* env.resolves: gethostbyname finds the host; env.tcp, env.udp: the
\* client of that transport can be created
open_mount(s, host, env) ==
    LET s1 == IF s.remotehost # NULL THEN close_mount(s) ELSE s
        s2 == IF IsDigitHost(host) THEN s1 ELSE Emit(s1, "RESOLVE", host)
    IN  IF ~IsDigitHost(host) /\ ~env.resolves
        THEN Ret(Say(s2, "unknown host"), 0)
        ELSE
        LET name == IF IsDigitHost(host) THEN host ELSE HName(host)
            s3 == [s2 EXCEPT !.remotehost = name]
            s4 == Emit(setup(s3, "SOCK_STREAM", "MOUNT", env), "MNT_CREATE", "tcp")
        IN  IF env.tcp
            THEN Ret(create_authenticator([s4 EXCEPT !.mntclient = "live"]), 1)
            ELSE LET s5 == Emit(setup(Say(s4, "mount/tcp"), "SOCK_DGRAM", "MOUNT", env),
                                "MNT_CREATE", "udp")
                 IN  IF env.udp
                     THEN Ret(create_authenticator([s5 EXCEPT !.mntclient = "live"]), 1)
                     ELSE Ret(Say([s5 EXCEPT !.mntclient = "null"], "mount"), 0)

HostEnvs == [resolves : BOOLEAN, tcp : BOOLEAN, udp : BOOLEAN, setup : SetupOutcomes]

\* the outcomes that were not asked for are held at TRUE
HostEnvUsed(s, env) ==
    /\ "RESOLVE" \notin Ops(s) => env.resolves
    /\ (\A i \in 1..Len(s.log) : s.log[i].op # "MNT_CREATE") =>
          (env.tcp /\ env.setup = "nopriv")
    /\ (\A i \in 1..Len(s.log) : ~(s.log[i].op = "MNT_CREATE" /\ s.log[i].a = "udp")) => env.udp

(***************************************************************************)
(* determine_transfersize: FSINFO on the current directory handle; 8192    *)
(* when there is no reply or the status is not NFS3_OK, else wtmax.  The   *)
(* result is left in ret.  wtmax is a uint32 returned as an int; the       *)
(* values of the model are below 2^31, where the two agree.                *)
(***************************************************************************)
WtMaxValues == {0, 32768}
\* an FSINFO3resok carries rtmax and wtmax; here the server gives them alike
FsinfoReplies ==
    {[kind |-> "none", wtmax |-> 0, rtmax |-> 0],
     [kind |-> "err", wtmax |-> 0, rtmax |-> 0]}
    \cup {[kind |-> "ok", wtmax |-> w, rtmax |-> w] : w \in WtMaxValues}
\* what the server has advertised once the reply is in
Advertised(s, reply) ==
    [s EXCEPT !.rtmax = IF reply.kind = "ok" THEN reply.rtmax ELSE 0]

DefaultTransferSize == 8192

\* a determine_transfersize that takes wtmax from any reply, whatever its status
determine_transfersize_any_status(s, reply) ==
    LET s1 == Emit(s, "FSINFO", [data_len |-> s.directory_handle.data_len,
                                 data_val |-> s.directory_handle.data_val])
    IN  IF reply.kind = "none" THEN Ret(Advertised(s1, reply), DefaultTransferSize)
        ELSE Ret(Advertised(s1, reply), reply.wtmax)

determine_transfersize(s, reply) ==
    LET s1 == Emit(s, "FSINFO", nfs_fh3copy(s.directory_handle))
    IN  IF reply.kind = "none" THEN Ret(Advertised(s1, reply), DefaultTransferSize)
        ELSE IF reply.kind # "ok" THEN Ret(Advertised(s1, reply), DefaultTransferSize)
        ELSE Ret(Advertised(s1, reply), reply.wtmax)

(***************************************************************************)
(* open_nfs.  flags is the set of option letters given: "U" NFS_OVER_UDP,  *)
(* "T" NFS_OVER_TCP, "p" THRU_PORTMAP, "u" MOUNT_UMOUNT.                   *)
(***************************************************************************)
\* flags & TRANSPORT_MASK
Transport(flags) ==
    IF "U" \in flags /\ "T" \notin flags THEN "NFS_OVER_UDP"
    ELSE IF "T" \in flags /\ "U" \notin flags THEN "NFS_OVER_TCP"
    ELSE "default"

NfsCreated(s) == Ret([s EXCEPT !.nfsclient = "live"], 1)
NfsCreateFailed(s, msg) == Ret(Say([s EXCEPT !.nfsclient = "null"], msg), 0)

\* clnttcp_create / clntudp_create(&nfsserver_addr, ..., &sock): the address
\* carries the port given (0: the RPC library looks it up), sock is what
\* setup left
NfsCreate(s, proto, port) ==
    Emit(s, "NFS_CREATE", [proto |-> proto, port |-> port, sock |-> s.ret])

\* the switch of open_nfs: nfsclient is assigned by every attempt
create_nfs_client(s, port, flags, env) ==
    IF Transport(flags) = "NFS_OVER_UDP"
    THEN LET s1 == NfsCreate(setup(s, "SOCK_DGRAM", "NFS", env), "udp", port)
         IN  IF env.udp THEN NfsCreated(s1)
             ELSE NfsCreateFailed(s1, "nfs clntudp_create")
    ELSE IF Transport(flags) = "NFS_OVER_TCP"
    THEN LET s1 == NfsCreate(setup(s, "SOCK_STREAM", "NFS", env), "tcp", port)
         IN  IF env.tcp THEN NfsCreated(s1)
             ELSE NfsCreateFailed(s1, "nfs clnttcp_create")
    ELSE LET s1 == NfsCreate(setup(s, "SOCK_STREAM", "NFS", env), "tcp", port)
         IN  IF env.tcp THEN NfsCreated(s1)
             ELSE LET s2 == NfsCreate(setup(s1, "SOCK_DGRAM", "NFS", env), "udp", port)
                  IN  IF env.udp THEN NfsCreated(s2)
                      ELSE NfsCreateFailed(s2, "nfs clntudp_create")

MntOk(path) == [null |-> FALSE, fhs_status |-> "MNT3_OK",
                fhandle |-> NodeFhandle3(ExportRoot(path))]
MntErr == [null |-> FALSE, fhs_status |-> "MNT3ERR_ACCES", fhandle |-> ZeroFhandle3]

\* the path != NULL branch of open_nfs: MNT, directly or through the portmapper
mount_path(s, path, flags, env) ==
    LET s1 == Emit(s, IF "p" \in flags THEN "PMAP_MNT" ELSE "MNT", path)
    IN  IF env.mnt = "none"
        THEN Ret(Say([s1 EXCEPT !.mountpoint = NullMountres], "mount3_mnt"), 0)
        ELSE IF env.mnt = "err"
        THEN Ret(Say([s1 EXCEPT !.mountpoint = MntErr], "Mount failed"), 0)
        ELSE LET s2 == [s1 EXCEPT !.mountpoint = MntOk(path)]
                 s3 == [s2 EXCEPT !.directory_handle =
                                     fhandle3_to_nfs_fh3(s2.mountpoint.fhandle)]
                 s4 == IF "u" \in flags THEN Emit(s3, "UMNT", path) ELSE s3
             IN  Ret([s4 EXCEPT !.mountpath = path], 1)

\* an open_nfs that opens the new channel over the mount it finds
open_nfs_over_mount(s, path, port, flags, env) ==
    LET s2 == create_nfs_client(s, port, flags, env)
    IN  IF s2.ret = 0 THEN s2
        ELSE IF s2.mntclient # "live" THEN Crash(s2)
        ELSE LET s3 == create_authenticator(s2)
             IN  IF s3.running # "running" THEN s3
                 ELSE LET s4 == IF path # NULL
                                THEN mount_path(s3, path, flags, env)
                                ELSE Ret([s3 EXCEPT !.mountpath = "<handle>"], 1)
                      IN  IF s4.ret = 0 THEN s4
                          ELSE LET s5 == determine_transfersize(s4, env.fsinfo)
                               IN  Ret([s5 EXCEPT !.transfersize = s5.ret], 1)

\* an open_nfs that keeps the old mount path when the new mount fails
open_nfs_back_on_failure(s, path, port, flags, env) ==
    LET s1 == IF s.mountpath # NULL THEN close_nfs(s) ELSE s
        r == open_nfs_over_mount(s1, path, port, flags, env)
    IN  IF r.ret = 0 /\ r.running = "running"
        THEN [r EXCEPT !.mountpath = s.mountpath]
        ELSE r

open_nfs(s, path, port, flags, env) ==
    LET s1 == IF s.mountpath # NULL THEN close_nfs(s) ELSE s
        s2 == create_nfs_client(s1, port, flags, env)
    IN  IF s2.ret = 0 THEN s2
        \* clnt_control(mntclient, ...) dereferences mntclient
        ELSE IF s2.mntclient # "live" THEN Crash(s2)
        ELSE LET s3 == create_authenticator(s2)
             IN  IF s3.running # "running" THEN s3
                 ELSE LET s4 == IF path # NULL
                                THEN mount_path(s3, path, flags, env)
                                ELSE Ret([s3 EXCEPT !.mountpath = "<handle>"], 1)
                      IN  IF s4.ret = 0 THEN s4
                          ELSE LET s5 == determine_transfersize(s4, env.fsinfo)
                               IN  Ret([s5 EXCEPT !.transfersize = s5.ret], 1)

NfsEnvs ==
    {e \in [tcp : BOOLEAN, udp : BOOLEAN, mnt : {"none", "err", "ok"},
            fsinfo : FsinfoReplies, setup : SetupOutcomes] :
        /\ e.mnt # "ok" => e.fsinfo.kind = "none"
        /\ (~e.tcp /\ ~e.udp) => e.mnt = "ok" /\ e.fsinfo.kind = "none"}

\* the outcomes that were not asked for are held at a fixed value
NfsEnvUsed(s, env) ==
    /\ (\A i \in 1..Len(s.log) : ~(s.log[i].op = "NFS_CREATE" /\ s.log[i].a.proto = "tcp"))
          => env.tcp
    /\ (\A i \in 1..Len(s.log) : ~(s.log[i].op = "NFS_CREATE" /\ s.log[i].a.proto = "udp"))
          => env.udp
    /\ "NFS_CREATE" \notin Ops(s) => env.setup = "nopriv"
    /\ ("MNT" \notin Ops(s) /\ "PMAP_MNT" \notin Ops(s)) => env.mnt = "ok"
    /\ "FSINFO" \notin Ops(s) => env.fsinfo.kind = "none"

(***************************************************************************)
(* Commands.                                                               *)
(***************************************************************************)
\* the command loop of main is about to read a line
AtPrompt == running = "running" /\ cmd = NoCommand

\* host <host>
HostLines == {<<>>} \cup {<<h>> : h \in Hosts}
do_host ==
    /\ AtPrompt
    /\ \E argv \in HostLines, env \in HostEnvs :
         LET s == IF 1 + Len(argv) # 2 THEN Say(Cur, "Usage: host <host>")
                  ELSE open_mount(Cur, argv[1], env)
         IN  /\ HostEnvUsed(s, env)
             /\ Commit(s, Command("host", [argv |-> argv, env |-> env]))

\* mount [-upTU] [-P port] <path>
MountFlagSets == {{}, {"u"}, {"p"}, {"T"}, {"U"}, {"T", "U"}}
\* -P port: 0 when the option is not given; the option is tried alone and
\* with -T
Ports == {0, 2049}
PortFlagSets == {{}, {"T"}}
MountArgs == [flags : MountFlagSets, port : {0}, paths : {<<p>> : p \in Paths}]
             \cup [flags : PortFlagSets, port : Ports \ {0},
                   paths : {<<p>> : p \in Paths}]
             \cup [flags : {{}}, port : {0}, paths : {<<>>}]

do_mount ==
    /\ AtPrompt
    /\ \E a \in MountArgs, env \in NfsEnvs :
         LET s == IF Len(a.paths) # 1
                  THEN Say(Cur, "Usage: mount [-upTU] [-P port] <path>")
                  ELSE IF remotehost = NULL
                  THEN Say(Cur, "mount: no host specified")
                  ELSE open_nfs(Cur, a.paths[1], a.port, a.flags, env)
         IN  /\ NfsEnvUsed(s, env)
             /\ Commit(s, Command("mount", [flags |-> a.flags, port |-> a.port,
                                            paths |-> a.paths, env |-> env]))

\* umount
do_umount ==
    /\ AtPrompt
    /\ \E argc \in {1, 2} :
         LET s == IF argc # 1 THEN Say(Cur, "Usage: umount")
                  ELSE IF mountpath = NULL
                  THEN Say(Cur, "umount: no remote file system mounted")
                  ELSE close_nfs(Cur)
         IN  Commit(s, Command("umount", [argc |-> argc]))

\* umountall
do_umountall ==
    /\ AtPrompt
    /\ \E argc \in {1, 2} :
         LET s == IF argc # 1 THEN Say(Cur, "Usage: umountall")
                  ELSE IF remotehost = NULL
                  THEN Say(Cur, "umountall: no host specified")
                  ELSE LET s1 == IF mountpath # NULL THEN close_nfs(Cur) ELSE Cur
                       \* mount3_umntall_3(NULL, mntclient) dereferences mntclient
                       IN  IF s1.mntclient # "live" THEN Crash(s1)
                           ELSE Emit(s1, "UMNTALL", "")
         IN  Commit(s, Command("umountall", [argc |-> argc]))

\* handle [-TU] [-P port] [<file handle>]
\* The handle is given as one argument per byte of an nfs_fh3: data_len
\* (one byte in the model), then the FhSize bytes of data_val.
SizeofNfsFh3 == 1 + FhSize
FhBytes(h) == <<h.data_len>> \o h.data_val
\* (char) strtol(argv[i], NULL, 16), with the token given by its value
ToChar(v) == v % 256
FhFromArgs(args) ==
    [data_len |-> ToChar(args[1]),
     data_val |-> [i \in 1..FhSize |-> ToChar(args[i + 1])]]

UserHandles == {FhBytes(NodeFh(2)),
                [FhBytes(NodeFh(6)) EXCEPT ![2] = @ + 256]}
HandleArgLists == UserHandles \cup {<<>>, <<FhSize>>, Zeros(SizeofNfsFh3 + 1)}
HandleFlagSets == {{}, {"T"}, {"U"}}

do_handle ==
    /\ AtPrompt
    /\ \E args \in HandleArgLists, flags \in HandleFlagSets, port \in Ports,
          env \in NfsEnvs :
         LET argc == Len(args)
             s == IF argc <= 1
                  THEN IF mountpath = NULL
                       THEN Say(Cur, "handle: no remote file system mounted")
                       ELSE Say(Cur, <<mountpath, FhBytes(directory_handle)>>)
                  ELSE IF argc # SizeofNfsFh3
                  THEN Say(Cur, "Usage: handle [-TU] <file handle>")
                  ELSE IF remotehost = NULL
                  THEN Say(Cur, "handle: no host specified")
                  ELSE open_nfs([Cur EXCEPT !.directory_handle = FhFromArgs(args)],
                                NULL, port, flags, env)
         IN  /\ port # 0 => flags \in PortFlagSets
             /\ NfsEnvUsed(s, env)
             /\ "NFS_CREATE" \notin Ops(s) => (flags = {} /\ port = 0)
             /\ Commit(s, Command("handle", [args |-> args, flags |-> flags,
                                             port |-> port, env |-> env]))

\* cd [<path>]
\* buf is the line buffer from argv[1] on, as the tokenizer left it: each
\* argument followed by a NUL, and the NUL that ended the line.
NUL == "NUL"
\* the arguments tried: paths over the names "x" (a directory under both
\* roots), "f" (a regular file) and "z" (no such name); and a second argument
Str(a) == <<a>>
CdPaths == {<<"x">>, <<"f">>, <<"z">>, <<"/">>, <<"/", "x">>, <<"x", "/">>,
            <<"x", "/", "x">>, <<"x", "/", "f">>, <<"x", "/", "z">>,
            <<"/", "x", "/", "x">>, <<"x", "/", "/", "x">>, <<"/", "/", "x">>,
            <<"x", "/", "x", "/", "x">>}
CdLines == {<<>>} \cup {<<P>> : P \in CdPaths} \cup {<<Str("x"), Str("x")>>}
RECURSIVE LineBuffer(_)
LineBuffer(argv) ==
    IF argv = <<>> THEN <<NUL>>
    ELSE Head(argv) \o <<NUL>> \o LineBuffer(Tail(argv))

\* the end of the component that starts at p: the first '/' or NUL
RECURSIVE ComponentEnd(_, _)
ComponentEnd(buf, p) ==
    IF buf[p] = "/" \/ buf[p] = NUL THEN p ELSE ComponentEnd(buf, p + 1)

\* a loop of do_cd that walks with directory_handle itself
RECURSIVE cd_loop_in_place(_, _, _, _, _, _)
cd_loop_in_place(s, buf, p, handle, k, env) ==
    LET s0 == [s EXCEPT !.directory_handle = handle] IN
    IF buf[p] = NUL THEN Ret(s0, 1)
    ELSE LET q == ComponentEnd(buf, p)
             component == SubSeq(buf, p, q - 1)
             s1 == Emit(s0, "LOOKUP", [dir |-> handle, name |-> component])
             res == ServerLookup(handle, component, env.emptyself)
         IN  IF env.lost = k + 1 THEN Ret(Say(s1, "nfs3_lookup"), 0)
             ELSE IF res.status # "NFS3_OK" THEN Ret(Say(s1, res.status), 0)
             ELSE IF res.type # "NF3DIR" THEN Ret(Say(s1, "is not a directory"), 0)
             ELSE cd_loop_in_place(s1, buf, q + 1, res.object, k + 1, env)

\* a loop of do_cd that checks the type of every component but the last
RECURSIVE cd_loop_last_unchecked(_, _, _, _, _, _)
cd_loop_last_unchecked(s, buf, p, handle, k, env) ==
    IF buf[p] = NUL THEN Ret([s EXCEPT !.directory_handle = nfs_fh3copy(handle)], 1)
    ELSE LET q == ComponentEnd(buf, p)
             component == SubSeq(buf, p, q - 1)
             s1 == Emit(s, "LOOKUP", [dir |-> nfs_fh3copy(handle), name |-> component])
             res == ServerLookup(nfs_fh3copy(handle), component, env.emptyself)
         IN  IF env.lost = k + 1 THEN Ret(Say(s1, "nfs3_lookup"), 0)
             ELSE IF res.status # "NFS3_OK" THEN Ret(Say(s1, res.status), 0)
             ELSE IF res.type # "NF3DIR" /\ buf[q] = "/"
             THEN Ret(Say(s1, "is not a directory"), 0)
             ELSE cd_loop_last_unchecked(s1, buf, q + 1, nfs_fh3copy(res.object),
                                         k + 1, env)

\* env.lost: which LOOKUP of the command gets no reply (0: none)
\* the loop of do_cd, at position p with handle reached after k LOOKUPs
RECURSIVE cd_loop(_, _, _, _, _, _)
cd_loop(s, buf, p, handle, k, env) ==
    IF buf[p] = NUL THEN Ret([s EXCEPT !.directory_handle = nfs_fh3copy(handle)], 1)
    ELSE LET q == ComponentEnd(buf, p)
             component == SubSeq(buf, p, q - 1)
             s1 == Emit(s, "LOOKUP", [dir |-> nfs_fh3copy(handle), name |-> component])
             res == ServerLookup(nfs_fh3copy(handle), component, env.emptyself)
         IN  IF env.lost = k + 1 THEN Ret(Say(s1, "nfs3_lookup"), 0)
             ELSE IF res.status # "NFS3_OK" THEN Ret(Say(s1, res.status), 0)
             ELSE IF res.type # "NF3DIR" THEN Ret(Say(s1, "is not a directory"), 0)
             ELSE cd_loop(s1, buf, q + 1, nfs_fh3copy(res.object), k + 1, env)

cd(s, argc, buf, env) ==
    IF s.mountpath = NULL THEN Ret(Say(s, "cd: no remote file system mounted"), 0)
    ELSE IF argc = 1
    THEN IF s.mountpoint.null THEN Crash(s)
         ELSE Ret([s EXCEPT !.directory_handle =
                               fhandle3_to_nfs_fh3(s.mountpoint.fhandle)], 1)
    ELSE IF buf[1] = "/"
    THEN IF s.mountpoint.null THEN Crash(s)
         ELSE cd_loop(s, buf, 2, fhandle3_to_nfs_fh3(s.mountpoint.fhandle), 0, env)
    ELSE cd_loop(s, buf, 1, nfs_fh3copy(s.directory_handle), 0, env)

\* no command of CdLines sends more LOOKUPs than its line has characters
MaxLookups(argv) == Len(LineBuffer(argv))
CdEnvs(argv) == [lost : 0..MaxLookups(argv), emptyself : BOOLEAN]
NLookups(s) == Cardinality({i \in 1..Len(s.log) : s.log[i].op = "LOOKUP"})
CdEnvUsed(s, env) ==
    /\ env.lost <= NLookups(s)
    /\ (\A i \in 1..Len(s.log) : ~(s.log[i].op = "LOOKUP" /\ s.log[i].a.name = <<>>))
          => env.emptyself

do_cd ==
    /\ AtPrompt
    /\ \E argv \in CdLines : \E env \in CdEnvs(argv) :
         LET s == cd(Cur, 1 + Len(argv), LineBuffer(argv), env)
         IN  /\ CdEnvUsed(s, env)
             /\ Commit(s, Command("cd", [argv |-> argv, env |-> env]))

\* df
RpcReplies == {"none", "err", "ok"}
do_df ==
    /\ AtPrompt
    /\ \E argc \in {1, 2}, reply \in RpcReplies :
         LET s == IF mountpath = NULL
                  THEN Say(Cur, "df: no remote file system mounted")
                  ELSE IF argc # 1 THEN Say(Cur, "Usage: df")
                  ELSE IF mountpoint.null THEN Crash(Cur)
                  ELSE LET s1 == Emit(Cur, "FSSTAT",
                                      fhandle3_to_nfs_fh3(mountpoint.fhandle))
                       IN  IF reply = "none" THEN Say(s1, "nfs3_fsstat")
                           ELSE IF reply = "err" THEN Say(s1, "Df failed")
                           ELSE Say(s1, <<remotehost, mountpath>>)
         IN  /\ "FSSTAT" \notin Ops(s) => reply = "ok"
             /\ Commit(s, Command("df", [argc |-> argc, reply |-> reply]))

\* the tail of do_setuid and do_setgid: rebuild the authenticator of nfsclient.
\* A destroyed client is freed memory: the access may fault or go through.
reauth(s, uaf) ==
    IF s.nfsclient = "null" THEN s
    ELSE IF s.nfsclient = "destroyed" /\ uaf = "fault" THEN Crash(s)
    ELSE create_authenticator(Emit(s, "NFS_AUTH", s.nfsclient))

UafOutcomes == {"fault", "through"}
\* the ids typed: uid 0; gid -2, which is also what gid alone sets
Uids == {0}
Gids == {-2}

\* uid [<uid> [<secret-key>]]
do_setuid ==
    /\ AtPrompt
    /\ \E argc \in 1..4, v \in Uids, uaf \in UafOutcomes :
         LET s == IF argc > 3 THEN Say(Cur, "Usage: uid [<uid> [<secret-key>]]")
                  ELSE LET s1 == IF argc <= 2
                                 THEN [Cur EXCEPT !.authtype = "AUTH_UNIX",
                                                  !.uid = IF argc = 1 THEN -2 ELSE v]
                                 ELSE [Cur EXCEPT !.authtype = "AUTH_DES"]
                       IN  reauth(s1, uaf)
         IN  /\ (nfsclient # "destroyed" \/ argc > 3) => uaf = "through"
             /\ Commit(s, Command("uid", [argc |-> argc, v |-> v, uaf |-> uaf]))

\* gid [<gid>]
do_setgid ==
    /\ AtPrompt
    /\ \E argc \in 1..3, v \in Gids, uaf \in UafOutcomes :
         LET s == reauth([Cur EXCEPT !.gid = IF argc = 2 THEN v ELSE -2], uaf)
         IN  /\ nfsclient # "destroyed" => uaf = "through"
             /\ Commit(s, Command("gid", [argc |-> argc, v |-> v, uaf |-> uaf]))

\* quit, bye or end of input: leave the command loop
do_quit ==
    /\ AtPrompt
    /\ LET s1 == IF remotehost # NULL THEN close_mount(Cur) ELSE Cur
       IN  Commit(Exit(s1, "exit0"), Command("quit", <<>>))

(***************************************************************************)
(* Names and patterns are C strings: sequences of characters, ended by a   *)
(* NUL that is not part of the sequence.                                   *)
(***************************************************************************)
\* the character codes of the characters the names and patterns are made of
Code(c) ==
    CASE c = "*" -> 42 [] c = "-" -> 45 [] c = "." -> 46 [] c = "/" -> 47
      [] c = "0" -> 48 [] c = "1" -> 49 [] c = "2" -> 50 [] c = "3" -> 51
      [] c = "4" -> 52 [] c = "5" -> 53 [] c = "6" -> 54 [] c = "7" -> 55
      [] c = "8" -> 56 [] c = "9" -> 57 [] c = "?" -> 63 [] c = "[" -> 91
      [] c = "]" -> 93 [] c = "a" -> 97 [] c = "b" -> 98
      [] c = "c" -> 99 [] c = "d" -> 100 [] c = "e" -> 101 [] c = "f" -> 102
      [] c = "g" -> 103 [] c = "h" -> 104 [] c = "i" -> 105 [] c = "l" -> 108 [] c = "n" -> 110
      [] c = "p" -> 112 [] c = "x" -> 120 [] c = "z" -> 122

\* str[i] of the C string, the NUL included
Ch(str, i) == IF i <= Len(str) THEN Code(str[i]) ELSE 0

\* strcmp: the sign of the first difference
RECURSIVE strcmp(_, _)
strcmp(p, q) ==
    IF Ch(p, 1) # Ch(q, 1) THEN (IF Ch(p, 1) < Ch(q, 1) THEN -1 ELSE 1)
    ELSE IF p = <<>> THEN 0
    ELSE strcmp(Tail(p), Tail(q))

dircmp(p, q) == strcmp(p, q)

\* qsort(table, n, ..., dircmp): the elements in the order of dircmp
RECURSIVE SortedInsert(_, _)
SortedInsert(x, sorted) ==
    IF sorted = <<>> THEN <<x>>
    ELSE IF dircmp(x, Head(sorted)) <= 0 THEN <<x>> \o sorted
    ELSE <<Head(sorted)>> \o SortedInsert(x, Tail(sorted))
RECURSIVE qsort(_)
qsort(table) ==
    IF table = <<>> THEN <<>>
    ELSE SortedInsert(Head(table), qsort(Tail(table)))

\* the pattern was read beyond its NUL: the result depends on what follows
\* it in the line buffer
OutOfPattern == 2

\* amatchpattern(s + i - 1, p + j - 1)
RECURSIVE amatchpattern(_, _, _, _)
RECURSIVE umatchpattern(_, _, _, _)
RECURSIVE amatch_bracket(_, _, _, _, _, _, _)
RECURSIVE umatch_loop(_, _, _, _)
amatchpattern(s, i, p, j) ==
    LET scc0 == Ch(s, i)
        \* if ((scc = *s++)) if ((scc &= 0177) == 0) scc = 0200;
        scc == IF scc0 = 0 THEN 0 ELSE IF scc0 % 128 = 0 THEN 128 ELSE scc0 % 128
        c == Ch(p, j)
    IN  IF c = Code("[") THEN amatch_bracket(s, i + 1, p, j + 1, scc, 0, 32767)
        ELSE IF c = Code("*") THEN umatchpattern(s, i, p, j + 1)
        ELSE IF c = 0 THEN (IF scc = 0 THEN 1 ELSE 0)
        ELSE IF c # Code("?") /\ c # scc THEN 0
        ELSE IF scc # 0 THEN amatchpattern(s, i + 1, p, j + 1)
        ELSE 0

\* the while loop of case '[', about to read p[j]
amatch_bracket(s, i, p, j, scc, ok, lc) ==
    LET cc == Ch(p, j) IN
    IF j > Len(p) + 1 THEN OutOfPattern
    ELSE IF cc = 0 THEN 0
    ELSE IF cc = Code("]")
    THEN IF ok # 0 THEN amatchpattern(s, i, p, j + 1) ELSE 0
    ELSE IF cc = Code("-")
    \* if (lc <= scc && scc <= (c = *p++)) ok++: p moves only when lc <= scc
    THEN IF lc <= scc
         THEN amatch_bracket(s, i, p, j + 2, scc,
                             IF scc <= Ch(p, j + 1) THEN ok + 1 ELSE ok, lc)
         ELSE amatch_bracket(s, i, p, j + 1, scc, ok, lc)
    \* if (scc == (lc = cc)) ok++
    ELSE amatch_bracket(s, i, p, j + 1, scc, IF scc = cc THEN ok + 1 ELSE ok, cc)

umatchpattern(s, i, p, j) ==
    IF Ch(p, j) = 0 THEN 1 ELSE umatch_loop(s, i, p, j)

umatch_loop(s, i, p, j) ==
    IF Ch(s, i) = 0 THEN 0
    ELSE LET r == amatchpattern(s, i, p, j)
         IN  IF r # 0 THEN r ELSE umatch_loop(s, i + 1, p, j)

\* a matchpattern without the rule for names that begin with a dot
matchpattern_any_first(s, p) == amatchpattern(s, 1, p, 1)

matchpattern(s, p) ==
    IF Ch(s, 1) = Code(".") /\ Ch(p, 1) # Code(".") THEN 0
    ELSE amatchpattern(s, 1, p, 1)

\* match(s, argc, argv) from argv[i] on
RECURSIVE match_loop(_, _, _)
match_loop(s, argv, i) ==
    IF i > Len(argv) THEN 0
    ELSE LET r == matchpattern(s, argv[i])
         IN  IF r # 0 THEN r ELSE match_loop(s, argv, i + 1)

\* a match that takes no pattern for the pattern "*"
match_star_for_none(s, argv) ==
    IF Len(argv) = 0 THEN matchpattern(s, <<"*">>) ELSE match_loop(s, argv, 1)

match(s, argv) == IF Len(argv) = 0 THEN 1 ELSE match_loop(s, argv, 1)

(***************************************************************************)
(* The files of the server.  "f" (object 3) holds FContent and does not    *)
(* change; "g" (object 7) lives in the root of /a and is what put creates  *)
(* and writes; its state is the variable remote.  The tree has no          *)
(* symbolic links.                                                         *)
(***************************************************************************)
FContent == <<7, 8, 9>>
GNode == 7
GName == <<"g">>
GDir == NodeFh(1)

\* LOOKUP3res for (dir, name), with the size attribute of the object
FileLookup(s, dir, name) ==
    IF dir = GDir /\ name = GName
    THEN IF s.remote.exists
         THEN [status |-> "NFS3_OK", object |-> NodeFh(GNode), type |-> "NF3REG",
               size |-> Len(s.remote.data)]
         ELSE [status |-> "NFS3ERR_NOENT", object |-> ZeroNfsFh3, type |-> "none",
               size |-> 0]
    ELSE LET r == ServerLookup(dir, name, FALSE)
         IN  [status |-> r.status, object |-> r.object, type |-> r.type,
              size |-> IF r.type = "NF3REG" THEN Len(FContent) ELSE 0]

\* the bytes of the regular file behind a handle
FileData(s, fh) == IF fh = NodeFh(GNode) THEN s.remote.data ELSE FContent

(***************************************************************************)
(* getdirentries.  The table is an array of nentries slots, ptr the number *)
(* of slots filled, last the capacity that triggers the next realloc.      *)
(* Memory allocation succeeds.  script is what the server answers to the   *)
(* first, second, ... READDIR of the iteration.                            *)
(***************************************************************************)
ReaddirCount == 8192
InitialEntries == 20

DirEntries(names, base) ==
    [i \in 1..Len(names) |-> [name |-> names[i], cookie |-> base + i]]
ReaddirOk(names, base, eof) ==
    [status |-> "NFS3_OK", entries |-> DirEntries(names, base), eof |-> eof]
ReaddirNone == [status |-> "none", entries |-> <<>>, eof |-> FALSE]
ReaddirErr == [status |-> "NFS3ERR_IO", entries |-> <<>>, eof |-> FALSE]

\* n slots, cleared; and the table moved into n slots
calloc(n) == <<>> \o [i \in 1..n |-> NULL]
realloc(table, n) == table \o [i \in 1..(n - Len(table)) |-> NULL]

\* the body of while (ep != NULL): one entry is appended
gde_entry(t, ep) ==
    LET t1 == IF t.ptr = t.last
              THEN [table |-> realloc(t.table, 2 * t.nentries),
                    ptr |-> t.nentries,
                    last |-> t.nentries + t.nentries,
                    nentries |-> 2 * t.nentries]
              ELSE t
    IN  [t1 EXCEPT !.table[t1.ptr + 1] = ep.name, !.ptr = t1.ptr + 1]

\* while (ep != NULL): the entries lo..hi are appended in order (the range
\* is halved to keep the evaluation shallow)
RECURSIVE gde_entries(_, _, _, _)
gde_entries(t, entries, lo, hi) ==
    IF lo > hi THEN t
    ELSE IF lo = hi THEN gde_entry(t, entries[lo])
    ELSE LET mid == (lo + hi) \div 2
             first == gde_entries(t, entries, lo, mid)
         \* ptr never passes last
         IN  IF first.ptr <= first.last
             THEN gde_entries(first, entries, mid + 1, hi)
             ELSE first

\* qsort(*table, *ptr - *table, ...); return 1
gde_return(s, t) ==
    IF t.ptr = 0 THEN Ret(s, [ok |-> 1, table |-> <<>>])
    ELSE Ret(s, [ok |-> 1, table |-> qsort(SubSeq(t.table, 1, t.ptr))])

RECURSIVE gde_loop_past_eof(_, _, _, _, _, _)
gde_loop_past_eof(s, dir, script, k, cookie, t) ==
    LET s1 == Emit(s, "READDIR", [dir |-> dir, cookie |-> cookie,
                                  count |-> ReaddirCount])
        res == IF k <= Len(script) THEN script[k] ELSE ReaddirNone
    IN  IF res.status = "none" THEN gde_return(Say(s1, "nfs3_readdir"), t)
        ELSE IF res.status # "NFS3_OK" THEN gde_return(Say(s1, "Readdir failed"), t)
        ELSE LET t1 == gde_entries(t, res.entries, 1, Len(res.entries))
             IN  IF res.eof /\ k >= Len(script) THEN gde_return(s1, t1)
                 ELSE IF res.entries = <<>> THEN Crash(s1)
                 ELSE gde_loop_past_eof(s1, dir, script, k + 1,
                                        res.entries[Len(res.entries)].cookie, t1)

\* for (;;), about to send the k-th READDIR
RECURSIVE gde_loop(_, _, _, _, _, _)
gde_loop(s, dir, script, k, cookie, t) ==
    LET s1 == Emit(s, "READDIR", [dir |-> dir, cookie |-> cookie,
                                  count |-> ReaddirCount])
        res == IF k <= Len(script) THEN script[k] ELSE ReaddirNone
    IN  IF res.status = "none" THEN gde_return(Say(s1, "nfs3_readdir"), t)
        ELSE IF res.status # "NFS3_OK" THEN gde_return(Say(s1, "Readdir failed"), t)
        ELSE LET t1 == gde_entries(t, res.entries, 1, Len(res.entries))
             IN  IF res.eof THEN gde_return(s1, t1)
                 \* memcpy(&args.cookie, &ep->cookie, ...) with ep == NULL
                 ELSE IF res.entries = <<>> THEN Crash(s1)
                 ELSE gde_loop(s1, dir, script, k + 1,
                               res.entries[Len(res.entries)].cookie, t1)

getdirentries(s, dirhandle, nentries, script) ==
    gde_loop(s, nfs_fh3copy(dirhandle), script, 1, 0,
             [table |-> calloc(nentries), ptr |-> 0, last |-> nentries,
              nentries |-> nentries])

\* the directories the server presents: names in the order sent, over one
\* or more replies
Digit(d) == <<"0", "1", "2", "3", "4", "5", "6", "7", "8", "9">>[d + 1]
\* the names e<lo> up to e<hi>, two digits each
Numbered(lo, hi) ==
    [i \in 1..(hi - lo + 1) |->
        <<"e", Digit((lo + i - 1) \div 10), Digit((lo + i - 1) % 10)>>]

\* one reply; what follows an eof reply is never asked for
OneReply ==
    <<ReaddirOk(<< <<"x">>, <<"g">>, <<".">>, <<"f">>, <<".", ".">> >>, 0, TRUE),
      ReaddirOk(<< <<"z">> >>, 5, TRUE)>>
\* the files a, b and .hidden
HiddenDir ==
    <<ReaddirOk(<< <<"b">>, <<".", "h", "i", "d", "d", "e", "n">>, <<"a">> >>, 0, TRUE)>>
DirScripts ==
    { OneReply, HiddenDir,
      \* two replies
      <<ReaddirOk(<< <<"x">>, <<"g">> >>, 0, FALSE),
        ReaddirOk(<< <<"f">> >>, 2, TRUE)>>,
      \* an empty directory
      <<ReaddirOk(<<>>, 0, TRUE)>>,
      \* no reply, or an error, at once or after a first reply
      <<ReaddirNone>>,
      <<ReaddirOk(<< <<"g">>, <<"f">> >>, 0, FALSE), ReaddirErr>>,
      <<ReaddirOk(<< <<"f">> >>, 0, FALSE), ReaddirNone>>,
      \* a name sent in two replies
      <<ReaddirOk(<< <<"f">> >>, 0, FALSE),
        ReaddirOk(<< <<"f">>, <<"g">> >>, 1, TRUE)>>,
      \* a reply without entries that is not the last
      <<ReaddirOk(<<>>, 0, FALSE), ReaddirOk(<< <<"f">> >>, 0, TRUE)>>,
      \* 45 entries, the first two names sent last: the table of 20 slots is
      \* doubled twice
      <<ReaddirOk(Numbered(3, 27), 0, FALSE),
        ReaddirOk(Numbered(28, 45) \o Numbered(1, 2), 25, TRUE)>> }

\* printfilestatus(file): env.lost is the LOOKUP of the command that gets no
\* reply (0: none)
printfilestatus(s, file, env) ==
    LET s1 == Emit(s, "LOOKUP", [dir |-> nfs_fh3copy(s.directory_handle),
                                 name |-> file])
        res == FileLookup(s, nfs_fh3copy(s.directory_handle), file)
    IN  IF env.lost = NLookups(s1) THEN Say(s1, "nfs3_lookup")
        ELSE IF res.status # "NFS3_OK" THEN Say(s1, "Lookup failed")
        ELSE Say(s1, <<res.type, res.size, file>>)

\* for (p = table; p < ptr; p++) of do_ls, at the k-th name
RECURSIVE ls_loop(_, _, _, _, _, _)
ls_loop(s, table, k, argv, lflag, env) ==
    IF k > Len(table) \/ s.running # "running" THEN s
    ELSE IF match(table[k], argv) = 0 THEN ls_loop(s, table, k + 1, argv, lflag, env)
    ELSE ls_loop(IF lflag THEN printfilestatus(s, table[k], env)
                 ELSE Say(s, table[k]),
                 table, k + 1, argv, lflag, env)

\* ls [-l] [<filespec> ...], argv from argv[1] on
ls(s, argv, env) ==
    IF s.mountpath = NULL THEN Say(s, "ls: no remote file system mounted")
    ELSE LET lflag == Len(argv) >= 1 /\ argv[1] = <<"-", "l">>
             argv1 == IF lflag THEN Tail(argv) ELSE argv
             s1 == getdirentries(s, s.directory_handle, InitialEntries, env.script)
         IN  IF s1.running # "running" THEN s1
             ELSE IF s1.ret.ok = 0 THEN Ret(s1, 0)
             ELSE Ret(ls_loop(Emit(s1, "TABLE", s1.ret.table), s1.ret.table, 1,
                              argv1, lflag, env), 1)

\* the file specifications tried; none of the patterns ends inside a
\* bracket range
LsLines == {<<>>, << <<"*">> >>, << <<"-", "l">> >>,
            << <<"-", "l">>, <<"[", "f", "-", "g", "]">> >>}
LsEnvs == {e \in [script : DirScripts, lost : 0..1] :
               e.lost # 0 => e.script = OneReply}
LsEnvUsed(s, env) ==
    /\ env.lost <= NLookups(s)
    /\ "READDIR" \notin Ops(s) => env.script = OneReply

do_ls ==
    /\ AtPrompt
    /\ \E argv \in LsLines, env \in LsEnvs :
         LET s == ls(Cur, argv, env)
         IN  /\ LsEnvUsed(s, env)
             /\ Commit(s, Command("ls", [argv |-> argv, env |-> env]))

Min(a, b) == IF a < b THEN a ELSE b
Count(b) == IF b THEN 1 ELSE 0

\* READ3res of the k-th READ of a command for (file, offset, count): the
\* server returns split[k] bytes at most (after the split is used up, all
\* it is asked for), and sets eof when the data reach the end of the file
ServerRead(data, offset, count, split, k) ==
    LET left == IF offset < Len(data) THEN Len(data) - offset ELSE 0
        most == IF k <= Len(split) THEN split[k] ELSE count
        n == Min(Min(most, count), left)
    IN  [data |-> SubSeq(data, offset + 1, offset + n),
         eof |-> offset + n >= Len(data)]

NReads(s) == Cardinality({i \in 1..Len(s.log) : s.log[i].op = "READ"})

\* fwrite(..., fp): the bytes are appended to the local file
fwrite(s, name, bytes) ==
    [s EXCEPT !.local[name] = File(s.local[name].data \o bytes)]

\* the READ loop of do_get for the file fh of the size LOOKUP reported,
\* at offset.  env.rfail: the READ of the command that fails (0: none), with
\* no reply or an error status (env.rkind).  The error message prints
\* argv[1], which is an argument only when two file specifications were
\* given: otherwise it is whatever an earlier line left in argvec
\* (env.stale: the read prints something or faults).
RECURSIVE get_read_loop_by_count(_, _, _, _, _, _, _)
get_read_loop_by_count(s, name, fh, size, offset, argv, env) ==
    IF ~(offset < size) THEN [s |-> s, offset |-> offset]
    ELSE LET s1 == Emit(s, "READ", [file |-> fh, offset |-> offset,
                                    count |-> s.transfersize])
             k == NReads(s1)
             res == ServerRead(FileData(s, fh), offset, s.transfersize, env.split, k)
         IN  IF env.rfail = k /\ env.rkind = "none"
             THEN [s |-> Say(s1, "nfs3_read"), offset |-> offset]
             ELSE IF env.rfail = k
             THEN [s |-> IF Len(argv) >= 2 THEN Say(s1, <<argv[2], "NFS3ERR_IO">>)
                         ELSE IF env.stale = "fault" THEN Crash(s1)
                         ELSE Say(s1, <<"?", "NFS3ERR_IO">>),
                   offset |-> offset]
             ELSE LET s2 == fwrite(s1, name, res.data)
                      off2 == offset + s.transfersize
                  IN  IF res.eof THEN [s |-> s2, offset |-> size]
                      ELSE IF s.transfersize = 0
                      THEN [s |-> Exit(s2, "hung"), offset |-> off2]
                      ELSE get_read_loop_by_count(s2, name, fh, size, off2, argv, env)

RECURSIVE get_read_loop(_, _, _, _, _, _, _)
get_read_loop(s, name, fh, size, offset, argv, env) ==
    IF ~(offset < size) THEN [s |-> s, offset |-> offset]
    ELSE LET s1 == Emit(s, "READ", [file |-> fh, offset |-> offset,
                                    count |-> s.transfersize])
             k == NReads(s1)
             res == ServerRead(FileData(s, fh), offset, s.transfersize, env.split, k)
         IN  IF env.rfail = k /\ env.rkind = "none"
             THEN [s |-> Say(s1, "nfs3_read"), offset |-> offset]
             ELSE IF env.rfail = k
             THEN [s |-> IF Len(argv) >= 2 THEN Say(s1, <<argv[2], "NFS3ERR_IO">>)
                         ELSE IF env.stale = "fault" THEN Crash(s1)
                         ELSE Say(s1, <<"?", "NFS3ERR_IO">>),
                   offset |-> offset]
             ELSE LET s2 == fwrite(s1, name, res.data)
                      off2 == offset + Len(res.data)
                  IN  IF res.eof THEN [s |-> s2, offset |-> off2]
                      \* a READ for no bytes returns none: the loop never ends
                      ELSE IF s.transfersize = 0
                      THEN [s |-> Exit(s2, "hung"), offset |-> off2]
                      ELSE get_read_loop(s2, name, fh, size, off2, argv, env)

\* for (p = table; p < ptr; p++) of do_get, at the k-th name
RECURSIVE get_loop(_, _, _, _, _, _)
get_loop(s, table, k, argv, iflag, env) ==
    IF k > Len(table) \/ s.running # "running" THEN s
    ELSE IF match(table[k], argv) = 0 THEN get_loop(s, table, k + 1, argv, iflag, env)
    ELSE
    LET name == table[k]
        s1 == Emit(s, "LOOKUP", [dir |-> nfs_fh3copy(s.directory_handle),
                                 name |-> name])
        res == FileLookup(s, nfs_fh3copy(s.directory_handle), name)
    IN  IF env.lost = NLookups(s1) THEN Say(s1, "nfs3_lookup")
        ELSE IF res.status # "NFS3_OK" THEN Say(s1, "Lookup failed")
        ELSE IF res.type # "NF3REG" THEN get_loop(s1, table, k + 1, argv, iflag, env)
        ELSE
        \* the answer is read from standard input unless -i was given
        LET s2 == IF iflag THEN Say(Say(s1, <<name, "?">>), "Yes")
                  ELSE Emit(Say(s1, <<name, "?">>), "FGETS", "stdin")
        IN  IF ~iflag /\ env.answer # "y"
            THEN get_loop(s2, table, k + 1, argv, iflag, env)
            ELSE
            LET s3 == Emit(s2, "FOPEN", [name |-> name, mode |-> "w"])
            IN  IF ~env.fopen
                THEN get_loop(Say(s3, "get: cannot create"), table, k + 1,
                              argv, iflag, env)
                ELSE
                \* fopen(*p, "w") creates or truncates the local file
                LET s4 == [s3 EXCEPT !.local[name] = File(<<>>)]
                    r == get_read_loop(s4, name, nfs_fh3copy(res.object), res.size,
                                       0, argv, env)
                    s5 == IF r.s.running = "running" /\ r.offset # res.size
                          THEN Say(r.s, "size mismatch on read")
                          ELSE r.s
                IN  get_loop(Emit(s5, "FCLOSE", name), table, k + 1, argv, iflag, env)

\* get [-i] [<filespec> ...], argv from argv[1] on
get(s, argv, env) ==
    IF s.mountpath = NULL THEN Say(s, "get: no remote file system mounted")
    ELSE LET iflag == Len(argv) >= 1 /\ argv[1] = <<"-", "i">>
             argv1 == IF iflag THEN Tail(argv) ELSE argv
             s1 == getdirentries(s, s.directory_handle, InitialEntries, env.script)
         IN  IF s1.running # "running" THEN s1
             ELSE IF s1.ret.ok = 0 THEN Ret(s1, 0)
             ELSE Ret(get_loop(Emit(s1, "TABLE", s1.ret.table), s1.ret.table, 1,
                               argv1, iflag, env), 1)

\* the ways the server splits a file into READ replies: in full, and in
\* short reads of one and two bytes
ReadSplits == {<<>>, <<1>>, <<1, 1>>, <<0, 2>>}
GetLines == {<<>>, << <<"-", "i">> >>, << <<"-", "i">>, <<"f">> >>,
             << <<"-", "i">>, <<"g">> >>, << <<"g">>, <<"f">> >>}
\* at most one thing goes wrong in a command, and the files are read in
\* pieces from the directory sent in one reply
GetEnvs ==
    {e \in [script : DirScripts, lost : 0..1, answer : {"y", "n", "eof"},
            fopen : BOOLEAN, split : ReadSplits, rfail : 0..1,
            rkind : {"none", "err"}, stale : {"text", "fault"}] :
        /\ Count(e.lost # 0) + Count(e.answer # "y") + Count(~e.fopen)
              + Count(e.rfail # 0) + Count(e.split # <<>>)
              + Count(e.script # OneReply) <= 1
        /\ e.rfail = 0 => e.rkind = "none"
        /\ e.rkind = "none" => e.stale = "text"}
GetEnvUsed(s, env, argv) ==
    /\ env.lost <= NLookups(s)
    /\ env.rfail <= NReads(s)
    /\ Len(env.split) <= NReads(s)
    /\ "READDIR" \notin Ops(s) => env.script = OneReply
    /\ "FOPEN" \notin Ops(s) => env.fopen
    /\ "FGETS" \notin Ops(s) => env.answer = "y"
    /\ Len(argv) >= 2 => env.stale = "text"

do_get ==
    /\ AtPrompt
    /\ \E argv \in GetLines, env \in GetEnvs :
         LET s == get(Cur, argv, env)
         IN  /\ GetEnvUsed(s, env, IF argv # <<>> /\ argv[1] = <<"-", "i">>
                                   THEN Tail(argv) ELSE argv)
             /\ Commit(s, Command("get", [argv |-> argv, env |-> env]))

(***************************************************************************)
(* The commands that change the remote tree.  The reply of each call is    *)
(* an input.  The tree that LOOKUP presents is followed only for the file  *)
(* "g": REMOVE succeeds on it when it exists, and then it is gone.         *)
(***************************************************************************)
\* a field of sattr3 that is set, and one that is not
SetIt(v) == [set_it |-> TRUE, v |-> v]
DontSet == [set_it |-> FALSE, v |-> 0]

\* the message of a call without reply, and of one with an error status
CallFailed(s, reply, perror, msg) ==
    IF reply = "none" THEN Say(s, perror)
    ELSE IF reply = "err" THEN Say(s, msg)
    ELSE s

rm_usage_first(s, argv, reply) ==
    IF 1 + Len(argv) # 2 THEN Say(s, "Usage: rm <file>")
    ELSE IF s.mountpath = NULL THEN Say(s, "rm: no remote file system mounted")
    ELSE LET dir == nfs_fh3copy(s.directory_handle)
             s1 == Emit(s, "REMOVE", [dir |-> dir, name |-> argv[1]])
             s2 == CallFailed(s1, reply, "nfs3_remove", "Remove failed")
         IN  IF reply = "ok" /\ dir = GDir /\ argv[1] = GName
             THEN [s2 EXCEPT !.remote = NoFile]
             ELSE s2

\* rm <file>
rm(s, argv, reply) ==
    IF s.mountpath = NULL THEN Say(s, "rm: no remote file system mounted")
    ELSE IF 1 + Len(argv) # 2 THEN Say(s, "Usage: rm <file>")
    ELSE LET dir == nfs_fh3copy(s.directory_handle)
             s1 == Emit(s, "REMOVE", [dir |-> dir, name |-> argv[1]])
             s2 == CallFailed(s1, reply, "nfs3_remove", "Remove failed")
         IN  IF reply = "ok" /\ dir = GDir /\ argv[1] = GName
             THEN [s2 EXCEPT !.remote = NoFile]
             ELSE s2

RmLines == {<<>>, << <<"g">> >>, << <<"z">> >>, << <<"g">>, <<"z">> >>}
do_rm ==
    /\ AtPrompt
    /\ \E argv \in RmLines, reply \in RpcReplies :
         LET s == rm(Cur, argv, reply)
         IN  /\ "REMOVE" \notin Ops(s) => reply = "err"
             \* the server removes what is there
             /\ reply = "ok" =>
                   (remote.exists /\ argv[1] = GName
                      /\ nfs_fh3copy(directory_handle) = GDir)
             /\ Commit(s, Command("rm", [argv |-> argv, reply |-> reply]))

ln_link_in_root(s, argv, env) ==
    IF s.mountpath = NULL THEN Say(s, "ln: no remote file system mounted")
    ELSE IF 1 + Len(argv) # 3 THEN Say(s, "Usage: ln <file1> <file2>")
    ELSE LET dir == nfs_fh3copy(s.directory_handle)
             s1 == Emit(s, "LOOKUP", [dir |-> dir, name |-> argv[1]])
             dres == FileLookup(s, dir, argv[1])
         IN  IF env.lost = 1 THEN Say(s1, "nfs3_lookup")
             ELSE IF dres.status # "NFS3_OK" THEN Say(s1, <<argv[1], dres.status>>)
             ELSE CallFailed(Emit(s1, "LINK",
                                  [file |-> nfs_fh3copy(dres.object),
                                   dir |-> fhandle3_to_nfs_fh3(s.mountpoint.fhandle),
                                   name |-> argv[2]]),
                             env.reply, "nfs3_link", "Link failed")

\* ln <file1> <file2>
ln(s, argv, env) ==
    IF s.mountpath = NULL THEN Say(s, "ln: no remote file system mounted")
    ELSE IF 1 + Len(argv) # 3 THEN Say(s, "Usage: ln <file1> <file2>")
    ELSE LET dir == nfs_fh3copy(s.directory_handle)
             s1 == Emit(s, "LOOKUP", [dir |-> dir, name |-> argv[1]])
             dres == FileLookup(s, dir, argv[1])
         IN  IF env.lost = 1 THEN Say(s1, "nfs3_lookup")
             ELSE IF dres.status # "NFS3_OK" THEN Say(s1, <<argv[1], dres.status>>)
             ELSE CallFailed(Emit(s1, "LINK", [file |-> nfs_fh3copy(dres.object),
                                               dir |-> dir, name |-> argv[2]]),
                             env.reply, "nfs3_link", "Link failed")

TwoNameLines == {<<>>, << <<"f">> >>, << <<"f">>, <<"h">> >>,
                 << <<"z">>, <<"h">> >>, << <<"f">>, <<"h">>, <<"x">> >>}
LnEnvs == [lost : 0..1, reply : RpcReplies]
do_ln ==
    /\ AtPrompt
    /\ \E argv \in TwoNameLines, env \in LnEnvs :
         LET s == ln(Cur, argv, env)
         IN  /\ env.lost <= NLookups(s)
             /\ "LINK" \notin Ops(s) => env.reply = "err"
             /\ Commit(s, Command("ln", [argv |-> argv, env |-> env]))

\* mv <file1> <file2>
mv(s, argv, reply) ==
    IF s.mountpath = NULL THEN Say(s, "mv: no remote file system mounted")
    ELSE IF 1 + Len(argv) # 3 THEN Say(s, "Usage: mv <file1> <file2>")
    ELSE LET dir == nfs_fh3copy(s.directory_handle)
         IN  CallFailed(Emit(s, "RENAME", [fromdir |-> dir, from |-> argv[1],
                                           todir |-> dir, to |-> argv[2]]),
                        reply, "nfs3_rename", "Rename failed")

do_mv ==
    /\ AtPrompt
    /\ \E argv \in TwoNameLines, reply \in RpcReplies :
         LET s == mv(Cur, argv, reply)
         IN  /\ "RENAME" \notin Ops(s) => reply = "err"
             /\ Commit(s, Command("mv", [argv |-> argv, reply |-> reply]))

\* mkdir <directory>: mode 040755
MkdirMode == 16877
mkdir(s, argv, reply) ==
    IF s.mountpath = NULL THEN Say(s, "mkdir: no remote file system mounted")
    ELSE IF 1 + Len(argv) # 2 THEN Say(s, "Usage: mkdir <directory>")
    ELSE CallFailed(Emit(s, "MKDIR",
                         [dir |-> nfs_fh3copy(s.directory_handle), name |-> argv[1],
                          attributes |-> [mode |-> SetIt(MkdirMode),
                                          uid |-> SetIt(s.uid), gid |-> SetIt(s.gid),
                                          size |-> DontSet, atime |-> DontSet,
                                          mtime |-> DontSet]]),
                    reply, "nfs3_mkdir", "Make directory failed")

OneNameLines == {<<>>, << <<"h">> >>, << <<"x">> >>, << <<"h">>, <<"x">> >>}
do_mkdir ==
    /\ AtPrompt
    /\ \E argv \in OneNameLines, reply \in RpcReplies :
         LET s == mkdir(Cur, argv, reply)
         IN  /\ "MKDIR" \notin Ops(s) => reply = "err"
             /\ Commit(s, Command("mkdir", [argv |-> argv, reply |-> reply]))

\* rmdir <directory>
rmdir(s, argv, reply) ==
    IF s.mountpath = NULL THEN Say(s, "rmdir: no remote file system mounted")
    ELSE IF 1 + Len(argv) # 2 THEN Say(s, "Usage: rmdir <directory>")
    ELSE CallFailed(Emit(s, "RMDIR", [dir |-> nfs_fh3copy(s.directory_handle),
                                      name |-> argv[1]]),
                    reply, "nfs3_rmdir", "Remove directory failed")

do_rmdir ==
    /\ AtPrompt
    /\ \E argv \in OneNameLines, reply \in RpcReplies :
         LET s == rmdir(Cur, argv, reply)
         IN  /\ "RMDIR" \notin Ops(s) => reply = "err"
             /\ Commit(s, Command("rmdir", [argv |-> argv, reply |-> reply]))

\* mknod <name> [b/c major minor] [p]: mode 0777; major and minor are given
\* by their values
MknodMode == 511
\* cargs starts zeroed: type 0 and no attributes
NoAttributes == [mode |-> DontSet, uid |-> DontSet, gid |-> DontSet]
mknod(s, argv, reply) ==
    LET argc == 1 + Len(argv) IN
    IF s.mountpath = NULL THEN Say(s, "mknod: no remote file system mounted")
    ELSE IF (argc # 3 /\ argc # 5) \/ Len(argv[2]) # 1
    THEN Say(s, "Usage: mknod <name> [b/c major minor] [p]")
    ELSE IF argc = 3 /\ argv[2] # <<"p">>
    THEN Say(s, "Usage: mknod <name> [b/c major minor] [p]")
    ELSE LET attrs == [mode |-> SetIt(MknodMode), uid |-> SetIt(s.uid),
                       gid |-> SetIt(s.gid)]
             what == IF argc = 3
                     THEN [type |-> "NF3FIFO", spec |-> <<0, 0>>, attributes |-> attrs]
                     ELSE IF argv[2] = <<"b">>
                     THEN [type |-> "NF3BLK", spec |-> <<argv[3], argv[4]>>,
                           attributes |-> attrs]
                     ELSE IF argv[2] = <<"c">>
                     THEN [type |-> "NF3CHR", spec |-> <<argv[3], argv[4]>>,
                           attributes |-> attrs]
                     ELSE [type |-> 0, spec |-> <<0, 0>>, attributes |-> NoAttributes]
             s1 == Emit(s, "MKNOD", [dir |-> nfs_fh3copy(s.directory_handle),
                                     name |-> argv[1], what |-> what])
         IN  CallFailed(s1, reply, "nfs3_mknod", "WARNING: Mknod failed")

MknodLines == {<<>>, << <<"h">> >>, << <<"h">>, <<"p">> >>, << <<"h">>, <<"b">> >>,
               << <<"h">>, <<"p", "p">> >>, << <<"h">>, <<"b">>, 8, 1 >>,
               << <<"h">>, <<"c">>, 4, 0 >>, << <<"h">>, <<"x">>, 1, 1 >>,
               << <<"h">>, <<"p">>, <<"x">> >>, << <<"h">>, <<"p">>, 1, 2 >>}
do_mknod ==
    /\ AtPrompt
    /\ \E argv \in MknodLines, reply \in RpcReplies :
         LET s == mknod(Cur, argv, reply)
         IN  /\ "MKNOD" \notin Ops(s) => reply = "err"
             /\ Commit(s, Command("mknod", [argv |-> argv, reply |-> reply]))

(***************************************************************************)
(* chmod and chown.  sscanf reads a number as the longest run of digits    *)
(* of the base after an optional '-'; it converts nothing when there is    *)
(* no digit.                                                               *)
(***************************************************************************)
IsDigit(c, base) == Code(c) >= Code("0") /\ Code(c) < Code("0") + base
RECURSIVE ScanDigits(_, _, _, _)
ScanDigits(str, i, base, acc) ==
    IF i <= Len(str) /\ IsDigit(str[i], base)
    THEN ScanDigits(str, i + 1, base, acc * base + (Code(str[i]) - Code("0")))
    ELSE [v |-> acc, next |-> i]
\* one conversion (%d: base 10, %o: base 8) from position i
ScanNumber(str, i, base) ==
    LET neg == i <= Len(str) /\ str[i] = "-"
        j == IF neg THEN i + 1 ELSE i
        r == ScanDigits(str, j, base, 0)
    IN  [ok |-> r.next > j, v |-> IF neg THEN 0 - r.v ELSE r.v, next |-> r.next]

\* LOOKUP of the target, then SETATTR with the attributes given
setattr(s, file, attributes, env) ==
    LET dir == nfs_fh3copy(s.directory_handle)
        s1 == Emit(s, "LOOKUP", [dir |-> dir, name |-> file])
        dres == FileLookup(s, dir, file)
    IN  IF env.lost = 1 THEN Say(s1, "nfs3_lookup")
        ELSE IF dres.status # "NFS3_OK" THEN Say(s1, <<file, dres.status>>)
        ELSE CallFailed(Emit(s1, "SETATTR",
                             [object |-> nfs_fh3copy(dres.object),
                              new_attributes |-> attributes,
                              guard |-> [check |-> FALSE]]),
                        env.reply, "nfs3_setattr", "Set attributes failed")

\* chmod <mode> <file>
chmod(s, argv, env) ==
    IF s.mountpath = NULL THEN Say(s, "chmod: no remote file system mounted")
    ELSE IF 1 + Len(argv) # 3 THEN Say(s, "Usage: chmod <mode> <file>")
    ELSE LET mode == ScanNumber(argv[1], 1, 8)
         IN  IF ~mode.ok THEN Say(s, "chmod: invalid mode")
             ELSE setattr(s, argv[2],
                          [mode |-> SetIt(mode.v), uid |-> DontSet, gid |-> DontSet,
                           size |-> DontSet, atime |-> DontSet, mtime |-> DontSet],
                          env)

\* chown <uid>[.<gid>] <file>: own_gid is -1 when no gid was read
chown(s, argv, env) ==
    IF s.mountpath = NULL THEN Say(s, "chown: no remote file system mounted")
    ELSE IF 1 + Len(argv) # 3 THEN Say(s, "Usage: chown <uid>[.<gid>] <file>")
    ELSE LET u == ScanNumber(argv[1], 1, 10)
             dot == u.ok /\ u.next <= Len(argv[1]) /\ argv[1][u.next] = "."
             g == IF dot THEN ScanNumber(argv[1], u.next + 1, 10)
                  ELSE [ok |-> FALSE, v |-> 0, next |-> u.next]
             own_gid == IF g.ok THEN g.v ELSE -1
         IN  IF ~u.ok THEN Say(s, "chown: invalid uid[.gid]")
             ELSE setattr(s, argv[2],
                          [mode |-> DontSet, uid |-> SetIt(u.v), gid |-> SetIt(own_gid),
                           size |-> DontSet, atime |-> DontSet, mtime |-> DontSet],
                          env)

SetattrEnvs == [lost : 0..1, reply : RpcReplies]
SetattrEnvUsed(s, env) ==
    /\ env.lost <= NLookups(s)
    /\ "SETATTR" \notin Ops(s) => env.reply = "err"

ChmodLines == {<<>>, << <<"6", "4", "4">>, <<"f">> >>, << <<"7", "8">>, <<"x">> >>,
               << <<"9">>, <<"f">> >>, << <<"6", "4", "4">>, <<"z">> >>,
               << <<"6", "4", "4">> >>}
do_chmod ==
    /\ AtPrompt
    /\ \E argv \in ChmodLines, env \in SetattrEnvs :
         LET s == chmod(Cur, argv, env)
         IN  /\ SetattrEnvUsed(s, env)
             /\ Commit(s, Command("chmod", [argv |-> argv, env |-> env]))

ChownLines == {<<>>, << <<"5">>, <<"f">> >>, << <<"5", ".", "7">>, <<"f">> >>,
               << <<"5", ".">>, <<"x">> >>, << <<"x">>, <<"f">> >>,
               << <<"5">>, <<"z">> >>, << <<"5">> >>}
do_chown ==
    /\ AtPrompt
    /\ \E argv \in ChownLines, env \in SetattrEnvs :
         LET s == chown(Cur, argv, env)
         IN  /\ SetattrEnvUsed(s, env)
             /\ Commit(s, Command("chown", [argv |-> argv, env |-> env]))

(***************************************************************************)
(* cat and put.                                                            *)
(***************************************************************************)
\* the READ loop of do_cat for the file fh of the size LOOKUP reported
RECURSIVE cat_read_loop(_, _, _, _, _, _)
cat_read_loop(s, name, fh, size, offset, env) ==
    IF ~(offset < size) THEN s
    ELSE LET s1 == Emit(s, "READ", [file |-> fh, offset |-> offset,
                                    count |-> s.transfersize])
             k == NReads(s1)
             res == ServerRead(FileData(s, fh), offset, s.transfersize, env.split, k)
         IN  IF env.rfail = k /\ env.rkind = "none" THEN Say(s1, "nfs3_read_3")
             ELSE IF env.rfail = k THEN Say(s1, <<name, "NFS3ERR_IO">>)
             ELSE LET s2 == Emit(s1, "STDOUT", res.data)
                  \* offset += transfersize: with 0 the loop never ends
                  IN  IF s.transfersize = 0 THEN Exit(s2, "hung")
                      ELSE cat_read_loop(s2, name, fh, size,
                                         offset + s.transfersize, env)

\* cat <filespec>
cat(s, argv, env) ==
    IF s.mountpath = NULL THEN Say(s, "cat: no remote file system mounted")
    ELSE IF 1 + Len(argv) # 2 THEN Say(s, "Usage: cat <filespec>")
    ELSE LET dir == nfs_fh3copy(s.directory_handle)
             s1 == Emit(s, "LOOKUP", [dir |-> dir, name |-> argv[1]])
             dres == FileLookup(s, dir, argv[1])
         IN  IF env.lost = 1 THEN Say(s1, "nfs3_lookup")
             ELSE IF dres.status # "NFS3_OK" THEN Say(s1, <<argv[1], dres.status>>)
             ELSE IF dres.type # "NF3REG"
             THEN Say(s1, <<argv[1], "is not a regular file">>)
             ELSE cat_read_loop(s1, argv[1], nfs_fh3copy(dres.object), dres.size,
                                0, env)

CatLines == {<<>>, << <<"f">> >>, << <<"g">> >>, << <<"x">> >>, << <<"z">> >>,
             << <<"f">>, <<"g">> >>}
CatEnvs ==
    {e \in [lost : 0..1, split : ReadSplits, rfail : 0..2, rkind : {"none", "err"}] :
        /\ Count(e.lost # 0) + Count(e.rfail # 0) + Count(e.split # <<>>) <= 1
        /\ e.rfail = 0 => e.rkind = "none"}
CatEnvUsed(s, env) ==
    /\ env.lost <= NLookups(s)
    /\ env.rfail <= NReads(s)
    /\ Len(env.split) <= NReads(s)

do_cat ==
    /\ AtPrompt
    /\ \E argv \in CatLines, env \in CatEnvs :
         LET s == cat(Cur, argv, env)
         IN  /\ CatEnvUsed(s, env)
             /\ Commit(s, Command("cat", [argv |-> argv, env |-> env]))

\* the size of the buffer put reads the local file into
BUFSIZ == 2
\* mode 0666
CreateMode == 438

NWrites(s) == Cardinality({i \in 1..Len(s.log) : s.log[i].op = "WRITE"})

\* the server writes bytes at offset of the file "g"; a hole reads as zeros
ServerWrite(data, offset, bytes) ==
    [i \in 1..(IF Len(data) > offset + Len(bytes) THEN Len(data)
               ELSE offset + Len(bytes)) |->
        IF i > offset /\ i <= offset + Len(bytes) THEN bytes[i - offset]
        ELSE IF i <= Len(data) THEN data[i]
        ELSE 0]

\* the WRITE loop of do_put.  env.wfail: the WRITE of the command that goes
\* wrong (0: none): no reply, an error status, or (short) a reply that
\* reports fewer bytes written than were sent
RECURSIVE put_write_loop(_, _, _, _, _)
put_write_loop(s, src, handle, offset, env) ==
    LET buf == SubSeq(src, offset + 1, Min(offset + BUFSIZ, Len(src)))
        n == Len(buf)
    IN  IF ~(n > 0) THEN Ret(Emit(s, "FCLOSE", "fp"), 1)
        ELSE LET s1 == Emit(s, "WRITE", [file |-> handle, offset |-> offset,
                                         count |-> n, data |-> buf])
                 bad == env.wfail = NWrites(s1)
             IN  IF bad /\ env.wkind = "none"
                 THEN Ret(Emit(Say(s1, "nfs3_write"), "FCLOSE", "fp"), 0)
                 ELSE IF bad /\ env.wkind = "err"
                 THEN Ret(Emit(Say(s1, "Write failed"), "FCLOSE", "fp"), 0)
                 ELSE LET written == IF bad THEN SubSeq(buf, 1, n - 1) ELSE buf
                          s2 == IF handle = NodeFh(GNode)
                                THEN [s1 EXCEPT !.remote =
                                        File(ServerWrite(s1.remote.data, offset,
                                                         written))]
                                ELSE s1
                      IN  put_write_loop(s2, src, handle, offset + n, env)

\* put <local-file> [<remote-file>].  env.create: CREATE gets no reply, is
\* refused, or is carried out by the server ("srv"): the file is created
\* empty, or NFS3ERR_EXIST is returned when it exists.  The server creates
\* files in the root of /a only.
put(s, argv, env) ==
    LET argc == 1 + Len(argv) IN
    IF s.mountpath = NULL THEN Say(s, "put: no remote file system mounted")
    ELSE IF argc # 2 /\ argc # 3
    THEN Say(s, "Usage: put <local-file> [<remote-file>]")
    ELSE
    LET s0 == Emit(s, "FOPEN", [name |-> argv[1], mode |-> "r"]) IN
    IF ~s.local[argv[1]].exists THEN Say(s0, "put: cannot open")
    ELSE
    LET name == IF argc = 3 THEN argv[2] ELSE argv[1]
        dir == nfs_fh3copy(s.directory_handle)
        s1 == Emit(s0, "CREATE",
                   [dir |-> dir, name |-> name, mode |-> "EXCLUSIVE",
                    obj_attributes |-> [mode |-> SetIt(CreateMode),
                                        uid |-> SetIt(s.uid), gid |-> SetIt(s.gid),
                                        size |-> DontSet, atime |-> DontSet,
                                        mtime |-> DontSet]])
        creates == env.create = "srv" /\ dir = GDir /\ name = GName
                      /\ ~s.remote.exists
    IN  IF env.create = "none" THEN Emit(Say(s1, "nfs3_create"), "FCLOSE", "fp")
        ELSE
        LET s2 == IF creates THEN [s1 EXCEPT !.remote = File(<<>>)]
                  ELSE Say(s1, "WARNING: Create failed")
            s3 == Emit(s2, "LOOKUP", [dir |-> dir, name |-> name])
            dres == FileLookup(s2, dir, name)
        IN  IF env.lost = 1 THEN Emit(Say(s3, "nfs3_lookup"), "FCLOSE", "fp")
            ELSE IF dres.status # "NFS3_OK"
            THEN Emit(Say(s3, <<argv[1], dres.status>>), "FCLOSE", "fp")
            ELSE put_write_loop(s3, s.local[argv[1]].data,
                                nfs_fh3copy(dres.object), 0, env)

PutLines == {<<>>, << <<"l">>, <<"g">> >>, << <<"l">> >>, << <<"n">> >>,
             << <<"l">>, <<"g">>, <<"x">> >>}
PutEnvs ==
    {e \in [create : {"none", "err", "srv"}, lost : 0..1, wfail : 0..1,
            wkind : {"none", "err", "short"}] :
        /\ Count(e.create # "srv") + Count(e.lost # 0) + Count(e.wfail # 0) <= 1
        /\ e.wfail = 0 => e.wkind = "none"}
PutEnvUsed(s, env) ==
    /\ env.lost <= NLookups(s)
    /\ env.wfail <= NWrites(s)
    /\ "CREATE" \notin Ops(s) => env.create = "srv"

do_put ==
    /\ AtPrompt
    /\ \E argv \in PutLines, env \in PutEnvs :
         LET s == put(Cur, argv, env)
         IN  /\ PutEnvUsed(s, env)
             /\ Commit(s, Command("put", [argv |-> argv, env |-> env]))

\* the handler has returned and main loops back to read the next line
Prompt ==
    /\ running = "running"
    /\ cmd # NoCommand
    /\ cmd' = NoCommand
    /\ pre' = NoSnapshot
    /\ log' = <<>>
    /\ out' = <<>>
    /\ UNCHANGED <<remotehost, mntclient, nfsclient, mountpath, mountpoint,
                   directory_handle, transfersize, authtype, uid, gid, running,
                   mounted_on, remote, local, last_put, rtmax>>

Init ==
    /\ remotehost = NULL
    /\ mntclient = "null"
    /\ nfsclient = "null"
    /\ mountpath = NULL
    /\ mountpoint = NullMountres
    /\ directory_handle = ZeroNfsFh3
    /\ transfersize = 0
    /\ authtype = "AUTH_UNIX"
    /\ uid = -2
    /\ gid = -2
    /\ running = "running"
    /\ log = <<>>
    /\ out = <<>>
    /\ cmd = NoCommand
    /\ pre = NoSnapshot
    /\ mounted_on = ZeroNfsFh3
    /\ remote = NoFile
    /\ local = NoLocalFiles
    /\ last_put = NoPut
    /\ rtmax = 0

Next ==
    \/ do_host
    \/ do_mount
    \/ do_umount
    \/ do_umountall
    \/ do_handle
    \/ do_cd
    \/ do_df
    \/ do_setuid
    \/ do_setgid
    \/ do_quit
    \/ Prompt

Spec == Init /\ [][Next]_vars

(***************************************************************************)
(* The file commands, in the session that `host 10.0.0.1` and `mount /a`   *)
(* leave, with the transfer size FSINFO gave.  The local directory holds   *)
(* the file "l"; the server may hold a file "g" already.                   *)
(***************************************************************************)
\* a wtmax small enough for a file to need more than one READ
SmallWtMax == 2
FilesFsinfo == {[kind |-> "ok", wtmax |-> SmallWtMax, rtmax |-> SmallWtMax]}
LContents == {<<5>>, <<5, 6, 7>>}
GContents == {<<1, 2, 3, 4>>}

Constructed ==
    [remotehost |-> NULL, mntclient |-> "null", nfsclient |-> "null",
     mountpath |-> NULL, mountpoint |-> NullMountres,
     directory_handle |-> ZeroNfsFh3, transfersize |-> 0,
     authtype |-> "AUTH_UNIX", uid |-> -2, gid |-> -2, running |-> "running",
     remote |-> NoFile, local |-> NoLocalFiles, rtmax |-> 0,
     log |-> <<>>, out |-> <<>>, ret |-> 0]

HostBound ==
    open_mount(Constructed, "10.0.0.1",
               [resolves |-> TRUE, tcp |-> TRUE, udp |-> TRUE, setup |-> "nopriv"])

MountedOnA(fsinfo) ==
    open_nfs(HostBound, "/a", 0, {},
             [tcp |-> TRUE, udp |-> TRUE, mnt |-> "ok", fsinfo |-> fsinfo,
              setup |-> "nopriv"])

\* the session s at the prompt, with l the content of the local file "l" and
\* g the remote file "g"
InitIn(s, l, g) ==
        /\ remotehost = s.remotehost
        /\ mntclient = s.mntclient
        /\ nfsclient = s.nfsclient
        /\ mountpath = s.mountpath
        /\ mountpoint = s.mountpoint
        /\ directory_handle = s.directory_handle
        /\ transfersize = s.transfersize
        /\ authtype = s.authtype
        /\ uid = s.uid
        /\ gid = s.gid
        /\ running = s.running
        /\ log = <<>>
        /\ out = <<>>
        /\ cmd = NoCommand
        /\ pre = NoSnapshot
        /\ mounted_on = IF s.mountpath = NULL THEN ZeroNfsFh3
                        ELSE fhandle3_to_nfs_fh3(s.mountpoint.fhandle)
        /\ remote = g
        /\ local = [NoLocalFiles EXCEPT ![<<"l">>] = File(l)]
        /\ last_put = NoPut
        /\ rtmax = s.rtmax

\* the session after a following `cd x`
MountedInX(fsinfo) ==
    cd(MountedOnA(fsinfo), 2, LineBuffer(<<Str("x")>>), [lost |-> 0, emptyself |-> TRUE])

InitFiles ==
    \E f \in FilesFsinfo, l \in LContents,
       g \in {NoFile} \cup {File(d) : d \in GContents} :
        \E s \in {MountedOnA(f), MountedInX(f)} : InitIn(s, l, g)

NextFiles ==
    \/ do_cat
    \/ do_ls
    \/ do_get
    \/ do_rm
    \/ do_ln
    \/ do_mv
    \/ do_mkdir
    \/ do_rmdir
    \/ do_chmod
    \/ do_chown
    \/ do_put
    \/ do_mknod
    \/ Prompt

SpecFiles == InitFiles /\ [][NextFiles]_vars

(***************************************************************************)
(* The commands that need a mounted file system, in the sessions that have *)
(* none: the one just constructed, the one `host 10.0.0.1` leaves, and the *)
(* one `umount` leaves.                                                    *)
(***************************************************************************)
Unmounted == {Constructed, HostBound} \cup {close_nfs(MountedOnA(f)) : f \in FilesFsinfo}

InitUnmounted ==
    \E s \in Unmounted, l \in LContents,
       g \in {NoFile} \cup {File(d) : d \in GContents} :
        InitIn(s, l, g)

NextUnmounted ==
    \/ do_cd
    \/ do_cat
    \/ do_ls
    \/ do_get
    \/ do_df
    \/ do_rm
    \/ do_ln
    \/ do_mv
    \/ do_mkdir
    \/ do_rmdir
    \/ do_chmod
    \/ do_chown
    \/ do_put
    \/ do_mknod
    \/ Prompt

SpecUnmounted == InitUnmounted /\ [][NextUnmounted]_vars

(***************************************************************************)
(* Reading from a server whose FSINFO reply carries any rtmax and wtmax.   *)
(***************************************************************************)
MaxAdvertised == 3
Advertisements ==
    {[kind |-> "ok", wtmax |-> w, rtmax |-> r] : w, r \in 1..MaxAdvertised}

InitRead ==
    \E f \in Advertisements, l \in LContents, d \in GContents :
        InitIn(MountedOnA(f), l, File(d))

NextRead ==
    \/ do_get
    \/ do_cat
    \/ Prompt

SpecRead == InitRead /\ [][NextRead]_vars

(***************************************************************************)
(* privileged: one socket, then bind tried port by port from                *)
(* IPPORT_RESERVED - 1 down.  The port range is scaled down.  env.socket    *)
(* tells whether socket() gives a descriptor, env.inuse the ports whose     *)
(* bind fails with EADDRINUSE, env.eacces whether bind fails with another   *)
(* errno.  The result is the socket and the port it is bound to.            *)
(***************************************************************************)
IPPORT_RESERVED == 16
ReservedPorts == (IPPORT_RESERVED \div 2)..(IPPORT_RESERVED - 1)
NoSocket == [sock |-> RPC_ANYSOCK, port |-> 0]
Bound(lport) == [sock |-> "socket", port |-> lport]

RECURSIVE privileged_loop(_, _, _)
privileged_loop(s, lport, env) ==
    LET s1 == Emit(s, "BIND", lport)
    IN  IF ~env.eacces /\ lport \notin env.inuse THEN Ret(s1, Bound(lport))
        ELSE IF env.eacces THEN Ret(Emit(s1, "CLOSE", lport), NoSocket)
        ELSE IF lport - 1 = IPPORT_RESERVED \div 2
        THEN Ret(Emit(Say(s1, "privileged socket: All ports in use"), "CLOSE", lport),
                 NoSocket)
        ELSE privileged_loop(s1, lport - 1, env)

privileged(s, type, env) ==
    LET s1 == Emit(s, "SOCKET", type)
    IN  IF ~env.socket THEN Ret(s1, NoSocket)
        ELSE privileged_loop(s1, IPPORT_RESERVED - 1, env)

PrivilegedEnvs ==
    {e \in [socket : BOOLEAN, eacces : BOOLEAN, inuse : SUBSET ReservedPorts] :
        (~e.socket \/ e.eacces) => e.inuse = {} /\ (~e.socket => ~e.eacces)}

Privileged ==
    /\ AtPrompt
    /\ \E type \in {"SOCK_STREAM", "SOCK_DGRAM"}, env \in PrivilegedEnvs :
         Commit(privileged(Cur, type, env),
                Command("privileged", [type |-> type, env |-> env]))

NextPrivileged ==
    \/ Privileged
    \/ Prompt

SpecPrivileged == Init /\ [][NextPrivileged]_vars

(***************************************************************************)
(* host with a source route: [<localaddr>]@[<host>:...]<dest>, or          *)
(* <localaddr>:<dest>.  The argument is a C string, here the sequence of   *)
(* its parts: the separators "@" and ":", dotted addresses (the four bytes *)
(* inet_addr makes of them) and one host name for gethostbyname.           *)
(***************************************************************************)
Sep(c) == [t |-> c, v |-> <<>>]
Ip(a, b, c, d) == [t |-> "ip", v |-> <<a, b, c, d>>]
HostName == [t |-> "name", v |-> <<>>]
NameAddr == <<10, 0, 2, 1>>
INADDR_NONE == <<255, 255, 255, 255>>
INADDR_ANY == <<0, 0, 0, 0>>
IPOPT_LSRR == 131
IPOPT_MINOFF == 4
SizeofIpopts == 32

\* strchr and strrchr: the index of the first and last c, 0 for NULL
strchr(str, c) ==
    IF \E i \in 1..Len(str) : str[i].t = c
    THEN CHOOSE i \in 1..Len(str) : str[i].t = c /\ \A j \in 1..(i - 1) : str[j].t # c
    ELSE 0
strrchr(str, c) ==
    IF \E i \in 1..Len(str) : str[i].t = c
    THEN CHOOSE i \in 1..Len(str) : str[i].t = c /\ \A j \in (i + 1)..Len(str) : str[j].t # c
    ELSE 0

\* convert_name: the address in ret; ~0 with a message for an unknown host
convert_name(s, host, env) ==
    IF host.t = "ip" THEN Ret(s, host.v)
    ELSE IF env.resolves THEN Ret(Emit(s, "RESOLVE", "name"), NameAddr)
    ELSE Ret(Say(Emit(s, "RESOLVE", "name"), "unknown host"), INADDR_NONE)

\* the while loop of sourceroute: src is what is left of the route, opts the
\* bytes from ipopts[0] up to the pointer opts.  A memcpy that ends beyond
\* ipopts[31] writes over the stack: the process dies there (env.smash =
\* "crash") or runs on with the bytes where they were put ("through")
RECURSIVE sr_loop(_, _, _, _)
sr_loop(s, src, opts, env) ==
    IF src = <<>> THEN Ret(s, opts)
    ELSE LET ind == strchr(src, ":")
             part == IF ind = 0 THEN src ELSE SubSeq(src, 1, ind - 1)
             rest == IF ind = 0 THEN <<>> ELSE SubSeq(src, ind + 1, Len(src))
             s1 == convert_name(s, part[1], env)
         IN  IF Len(opts) + 4 > SizeofIpopts /\ env.smash = "crash"
             THEN Crash(Emit(s1, "OVERFLOW", Len(opts) + 4))
             ELSE sr_loop(IF Len(opts) + 4 > SizeofIpopts
                          THEN Emit(s1, "OVERFLOW", Len(opts) + 4) ELSE s1,
                          rest, opts \o s1.ret, env)

RECURSIVE Padded(_)
Padded(opts) == IF Len(opts) % 4 = 0 THEN opts ELSE Padded(Append(opts, 0))

\* sourceroute(src, svr, prog, vers): the socket in ret
sourceroute(s, src, prog, env) ==
    LET ind == strchr(src, "@")
    IN  \* *ind = '\0' with ind NULL
        IF ind # 1 /\ ind = 0 THEN Crash(s)
        ELSE
        LET s1 == IF ind = 1 THEN privileged(Emit(s, "SRCADDR", INADDR_ANY), "SOCK_STREAM", env)
                  ELSE LET c == convert_name(s, src[1], env)
                           q == privileged(Emit(c, "SRCADDR", c.ret), "SOCK_STREAM", env)
                       IN  IF q.ret # NoSocket THEN q
                           ELSE IF env.bindsrc
                           THEN Ret(Emit(q, "BIND", 0), Bound(0))
                           ELSE Ret(Say(Emit(q, "BIND", 0), "Couldn't bind to src"), NoSocket)
        IN  IF ind # 1 /\ s1.ret = NoSocket THEN s1
            ELSE
            LET sock == s1.ret
                s2 == sr_loop(s1, SubSeq(src, ind + 1, Len(src)),
                              <<IPOPT_LSRR, 0, IPOPT_MINOFF>>, env)
            IN  IF s2.running # "running" THEN s2
                ELSE
                LET ipopts == Padded([s2.ret EXCEPT ![2] = Len(s2.ret)])
                    s3 == Emit(s2, "SETSOCKOPT", [sock |-> sock, ipopts |-> ipopts])
                IN  IF sock = NoSocket \/ ~env.setsockopt
                    THEN Ret(Say(s3, "setsockopt"), NoSocket)
                    ELSE LET s4 == Emit(Emit(s3, "GETPORT", [prog |-> prog, type |-> "SOCK_STREAM"]),
                                        "CONNECT", [prog |-> prog, type |-> "SOCK_STREAM"])
                         IN  IF env.setup = "refused"
                             THEN Ret(Say(s4, "connect"), NoSocket)
                             ELSE Ret(s4, sock)

\* open_mount for an argument that holds a ":" or an "@"
open_mount_src(s, arg, env) ==
    LET colon == strrchr(arg, ":")
        tmp == IF colon # 0 THEN colon ELSE strchr(arg, "@")
        host == arg[tmp + 1]
        s1 == IF s.remotehost # NULL THEN close_mount(s) ELSE s
        s2 == IF host.t = "ip" THEN s1 ELSE Emit(s1, "RESOLVE", "name")
    IN  IF host.t # "ip" /\ ~env.resolves
        THEN Ret(Say(s2, "unknown host"), 0)
        ELSE
        LET s3 == [s2 EXCEPT !.remotehost = IF host.t = "ip" THEN "10.0.0.1"
                                            ELSE HName("nfs")]
            r == sourceroute(s3, arg, "MOUNT", env)
        IN  IF r.running # "running" THEN r
            ELSE
            LET s4 == Emit(r, "MNT_CREATE", "tcp")
            IN  IF env.tcp
                THEN Ret(create_authenticator(
                             Emit([s4 EXCEPT !.mntclient = "live"], "CHANNEL", r.ret)), 1)
                ELSE LET s5 == Emit(setup(Say(s4, "mount/tcp"), "SOCK_DGRAM", "MOUNT", env),
                                    "MNT_CREATE", "udp")
                     IN  IF env.udp
                         THEN Ret(create_authenticator([s5 EXCEPT !.mntclient = "live"]), 1)
                         ELSE Ret(Say([s5 EXCEPT !.mntclient = "null"], "mount"), 0)

\* the routes tried: no local address, an address or a name; up to MaxHops
\* hops 10.0.1.1, 10.0.1.2, ..., or a named hop; the destination 10.0.0.1
MaxHops == 7
Dest == Ip(10, 0, 0, 1)
LocalAddr == Ip(10, 0, 0, 9)
RECURSIVE Route(_, _)
Route(hops, dest) ==
    IF hops = <<>> THEN <<dest>>
    ELSE <<Head(hops), Sep(":")>> \o Route(Tail(hops), dest)
HopLists ==
    {[i \in 1..n |-> Ip(10, 0, 1, i)] : n \in 0..MaxHops}
    \cup {<<HostName>>, <<Ip(10, 0, 1, 2), Ip(10, 0, 1, 1)>>}
RouteArgs ==
    {src \o <<Sep("@")>> \o Route(hops, dest) :
        src \in {<<>>, <<LocalAddr>>, <<HostName>>}, hops \in HopLists,
        dest \in {Dest, HostName}}
    \cup {<<LocalAddr, Sep(":"), Dest>>, <<HostName, Sep(":"), Dest>>}
RouteEnvs ==
    {e \in [resolves : BOOLEAN, tcp : BOOLEAN, udp : BOOLEAN, setup : SetupOutcomes,
             socket : {TRUE}, eacces : BOOLEAN, inuse : {{}, ReservedPorts},
             bindsrc : BOOLEAN, setsockopt : BOOLEAN, smash : {"crash", "through"}] :
        Count(~e.resolves) + Count(~e.tcp) + Count(e.setup # "connected")
          + Count(e.eacces) + Count(e.inuse # {}) + Count(~e.setsockopt) <= 1}
RouteEnvUsed(s, env) ==
    /\ "RESOLVE" \notin Ops(s) => env.resolves
    /\ "OVERFLOW" \notin Ops(s) => env.smash = "crash"
    /\ "SETSOCKOPT" \notin Ops(s) => env.setsockopt
    /\ (\A i \in 1..Len(s.log) : ~(s.log[i].op = "BIND" /\ s.log[i].a = 0)) => env.bindsrc
    /\ "MNT_CREATE" \notin Ops(s) => env.tcp
    /\ (\A i \in 1..Len(s.log) : ~(s.log[i].op = "MNT_CREATE" /\ s.log[i].a = "udp")) => env.udp
    /\ ("CONNECT" \notin Ops(s) /\ "SETSOCKOPT" \notin Ops(s)) => env.setup = "connected"

do_host_src ==
    /\ AtPrompt
    /\ \E arg \in RouteArgs, env \in RouteEnvs :
         LET s == open_mount_src(Cur, arg, env)
         IN  /\ RouteEnvUsed(s, env)
             /\ Commit(s, Command("host", [argv |-> <<arg>>, env |-> env]))

NextRoute ==
    \/ do_host_src
    \/ do_quit
    \/ Prompt

SpecRoute == Init /\ [][NextRoute]_vars

(***************************************************************************)
(* match applied to names and to lists of patterns.  A pattern is a run of *)
(* up to MaxTokens tokens: a literal, a dot, a star, a question mark or a  *)
(* bracketed class.                                                        *)
(***************************************************************************)
MaxNameLen == 3
MaxTokens == 3
NameChars == {"a", "b", "c", "."}
Tokens == {<<"a">>, <<"b">>, <<".">>, <<"*">>, <<"?">>, <<"[", "a", "b", "]">>,
           <<"[", "a", "-", "c", "]">>, <<"[", "b", "-", "z", "]">>}
MatchNames == UNION {[1..n -> NameChars] : n \in 1..MaxNameLen}
RECURSIVE Flatten(_)
Flatten(ts) == IF ts = <<>> THEN <<>> ELSE Head(ts) \o Flatten(Tail(ts))
MatchPatterns == {Flatten(ts) : ts \in UNION {[1..n -> Tokens] : n \in 1..MaxTokens}}
PatternLists ==
    {<<>>} \cup {<<P>> : P \in MatchPatterns}
    \cup {<<P, Q>> : P \in {<<"a">>, <<".", "*">>}, Q \in {<<"b", "*">>, <<"?">>}}

Match ==
    /\ AtPrompt
    /\ \E s \in MatchNames, argv \in PatternLists :
         Commit(Ret(Cur, match(s, argv)), Command("match", [s |-> s, argv |-> argv]))

NextMatch ==
    \/ Match
    \/ Prompt

SpecMatch == Init /\ [][NextMatch]_vars

(***************************************************************************)
(* SIGINT.  interrupt() longjmps to the setjmp of main, which prints a     *)
(* newline and reads the next line.  The signal is taken while a command   *)
(* waits in a call for its reply: what the handler had done up to that     *)
(* call stays done, what follows the call is not done.  All calls before   *)
(* the one interrupted are answered OK.                                    *)
(***************************************************************************)
Waiting(s, op, a) == Ret(Say(Emit(Emit(s, op, a), "SIGINT", op), "\n"), 0)
AllOk == [tcp |-> TRUE, udp |-> TRUE, mnt |-> "ok", setup |-> "connected",
          resolves |-> TRUE,
          fsinfo |-> [kind |-> "ok", wtmax |-> 32768, rtmax |-> 32768]]

\* open_nfs up to the call at: the UMNT of close_nfs, the GETPORT of setup,
\* the MNT, or the FSINFO of determine_transfersize
open_nfs_sigint(s, path, port, flags, at) ==
    IF at = "UMNT" THEN Waiting(s, "UMNT", s.mountpath)
    ELSE
    LET s1 == IF s.mountpath # NULL THEN close_nfs(s) ELSE s
        type == IF Transport(flags) = "NFS_OVER_UDP" THEN "SOCK_DGRAM" ELSE "SOCK_STREAM"
    IN  IF at = "GETPORT" THEN Waiting(s1, "GETPORT", [prog |-> "NFS", type |-> type])
        ELSE
        LET s2 == create_nfs_client(s1, port, flags, AllOk)
        IN  IF s2.mntclient # "live" THEN Crash(s2)
            ELSE LET s3 == create_authenticator(s2)
                 IN  IF s3.running # "running" THEN s3
                     ELSE IF at = "MNT"
                     THEN Waiting(s3, IF "p" \in flags THEN "PMAP_MNT" ELSE "MNT", path)
                     ELSE LET s4 == mount_path(s3, path, flags, AllOk)
                          IN  Waiting(s4, "FSINFO", nfs_fh3copy(s4.directory_handle))

\* open_mount up to the UMNT of close_mount or the GETPORT of setup
open_mount_sigint(s, host, at) ==
    IF at = "UMNT" THEN Waiting(s, "UMNT", s.mountpath)
    ELSE LET s1 == IF s.remotehost # NULL THEN close_mount(s) ELSE s
             name == IF IsDigitHost(host) THEN host ELSE HName(host)
             s2 == IF IsDigitHost(host) THEN s1 ELSE Emit(s1, "RESOLVE", host)
         IN  Waiting([s2 EXCEPT !.remotehost = name], "GETPORT",
                     [prog |-> "MOUNT", type |-> "SOCK_STREAM"])

\* mount <path>, interrupted
do_mount_sigint ==
    /\ AtPrompt
    /\ remotehost # NULL
    /\ \E path \in Paths, flags \in {{}, {"U"}, {"p"}},
          at \in {"UMNT", "GETPORT", "MNT", "FSINFO"} :
         /\ at = "UMNT" => mountpath # NULL
         /\ Commit(open_nfs_sigint(Cur, path, 0, flags, at),
                   Command("mount", [flags |-> flags, port |-> 0, paths |-> <<path>>,
                                     env |-> AllOk]))

\* host <host>, interrupted
do_host_sigint ==
    /\ AtPrompt
    /\ \E host \in Hosts, at \in {"UMNT", "GETPORT"} :
         /\ at = "UMNT" => mountpath # NULL
         /\ Commit(open_mount_sigint(Cur, host, at),
                   Command("host", [argv |-> <<host>>, env |-> AllOk]))

\* cd <path>, interrupted in its k-th LOOKUP: the handle walked so far is a
\* local of do_cd
do_cd_sigint ==
    /\ AtPrompt
    /\ mountpath # NULL
    /\ \E argv \in CdLines : \E k \in 1..MaxLookups(argv) :
         LET env == [lost |-> k, emptyself |-> TRUE]
             s == cd(Cur, 1 + Len(argv), LineBuffer(argv), env)
         IN  /\ s.running = "running"
             /\ NLookups(s) = k
             /\ s.out = <<"nfs3_lookup">>
             /\ Commit(Ret(Say(Emit([s EXCEPT !.out = <<>>], "SIGINT", "LOOKUP"), "\n"), 0),
                       Command("cd", [argv |-> argv, env |-> env]))

\* umount, interrupted in its UMNT
do_umount_sigint ==
    /\ AtPrompt
    /\ mountpath # NULL
    /\ Commit(Waiting(Cur, "UMNT", mountpath), Command("umount", [argc |-> 1]))

InitSigint ==
    \E s \in {HostBound} \cup {MountedOnA(f) : f \in FilesFsinfo}
              \cup {MountedInX(f) : f \in FilesFsinfo} :
        InitIn(s, <<5>>, NoFile)

NextSigint ==
    \/ do_mount_sigint
    \/ do_host_sigint
    \/ do_cd_sigint
    \/ do_umount_sigint
    \/ do_mount
    \/ do_cd
    \/ do_umount
    \/ Prompt

SpecSigint == InitSigint /\ [][NextSigint]_vars

(***************************************************************************)
(* nfs_error: the message for a status.  The values of enum nfsstat3 are   *)
(* those of the NFS version 3 protocol.                                    *)
(***************************************************************************)
Nfsstat3 ==
    [NFS3_OK |-> 0, NFS3ERR_PERM |-> 1, NFS3ERR_NOENT |-> 2, NFS3ERR_IO |-> 5,
     NFS3ERR_NXIO |-> 6, NFS3ERR_ACCES |-> 13, NFS3ERR_EXIST |-> 17,
     NFS3ERR_XDEV |-> 18, NFS3ERR_NODEV |-> 19, NFS3ERR_NOTDIR |-> 20,
     NFS3ERR_ISDIR |-> 21, NFS3ERR_INVAL |-> 22, NFS3ERR_FBIG |-> 27,
     NFS3ERR_NOSPC |-> 28, NFS3ERR_ROFS |-> 30, NFS3ERR_MLINK |-> 31,
     NFS3ERR_NAMETOOLONG |-> 63, NFS3ERR_NOTEMPTY |-> 66, NFS3ERR_DQUOT |-> 69,
     NFS3ERR_STALE |-> 70, NFS3ERR_REMOTE |-> 71, NFS3ERR_BADHANDLE |-> 10001,
     NFS3ERR_NOT_SYNC |-> 10002, NFS3ERR_BAD_COOKIE |-> 10003,
     NFS3ERR_NOTSUPP |-> 10004, NFS3ERR_TOOSMALL |-> 10005,
     NFS3ERR_SERVERFAULT |-> 10006, NFS3ERR_BADTYPE |-> 10007,
     NFS3ERR_JUKEBOX |-> 10008]

nfs_error(stat) ==
    CASE stat = Nfsstat3.NFS3_OK -> "No error"
      [] stat = Nfsstat3.NFS3ERR_PERM -> "Not owner"
      [] stat = Nfsstat3.NFS3ERR_NOENT -> "No such file or directory"
      [] stat = Nfsstat3.NFS3ERR_IO -> "I/O error"
      [] stat = Nfsstat3.NFS3ERR_NXIO -> "No such device or address"
      [] stat = Nfsstat3.NFS3ERR_ACCES -> "Permission denied"
      [] stat = Nfsstat3.NFS3ERR_EXIST -> "File exists"
      [] stat = Nfsstat3.NFS3ERR_NODEV -> "No such device"
      [] stat = Nfsstat3.NFS3ERR_NOTDIR -> "Not a directory"
      [] stat = Nfsstat3.NFS3ERR_ISDIR -> "Is a directory"
      [] stat = Nfsstat3.NFS3ERR_FBIG -> "File too large"
      [] stat = Nfsstat3.NFS3ERR_NOSPC -> "No space left on device"
      [] stat = Nfsstat3.NFS3ERR_ROFS -> "Read-only file system"
      [] stat = Nfsstat3.NFS3ERR_MLINK -> "Too many hard links"
      [] stat = Nfsstat3.NFS3ERR_NAMETOOLONG -> "File name too long"
      [] stat = Nfsstat3.NFS3ERR_NOTEMPTY -> "Directory not empty"
      [] stat = Nfsstat3.NFS3ERR_DQUOT -> "Disc quota exceeded"
      [] stat = Nfsstat3.NFS3ERR_STALE -> "Stale NFS file handle"
      [] stat = Nfsstat3.NFS3ERR_REMOTE -> "Too many levels of remote in path"
      [] stat = Nfsstat3.NFS3ERR_BADHANDLE -> "Illegal NFS file handle"
      [] stat = Nfsstat3.NFS3ERR_NOT_SYNC -> "Update synchronization mismatch"
      [] stat = Nfsstat3.NFS3ERR_BAD_COOKIE -> "READDIR or READDIRPLUS cookie is stale"
      [] stat = Nfsstat3.NFS3ERR_NOTSUPP -> "Operation is not supported"
      [] stat = Nfsstat3.NFS3ERR_TOOSMALL -> "Buffer or request is too small"
      [] stat = Nfsstat3.NFS3ERR_SERVERFAULT -> "Other server error"
      [] stat = Nfsstat3.NFS3ERR_BADTYPE -> "Type not supported by server"
      [] stat = Nfsstat3.NFS3ERR_JUKEBOX -> "Retrieval pending"
      [] OTHER -> "UKNOWN NFS ERROR"

\* the statuses tried: the small values and those around 10000
MaxSmallStat == 100
Stats == (-1..MaxSmallStat) \cup (9999..10010)

NfsError ==
    /\ AtPrompt
    /\ \E stat \in Stats :
         Commit(Ret(Cur, nfs_error(stat)), Command("nfs_error", [stat |-> stat]))

NextNfsError ==
    \/ NfsError
    \/ Prompt

SpecNfsError == Init /\ [][NextNfsError]_vars

(***************************************************************************)
(* Properties of the session.                                              *)
(***************************************************************************)
HasEv(op, a) == \E i \in 1..Len(log) : log[i].op = op /\ log[i].a = a
HasOp(op) == \E i \in 1..Len(log) : log[i].op = op
\* every event op comes before every event op2
AllBefore(op, op2) ==
    \A i, j \in 1..Len(log) : (log[i].op = op /\ log[j].op = op2) => i < j
\* the event (op, a) comes before every event op2
EvBefore(op, a, op2) ==
    \A i, j \in 1..Len(log) :
        (log[i].op = op /\ log[i].a = a /\ log[j].op = op2) => i < j
MountCalls == {"MNT", "PMAP_MNT", "UMNT", "UMNTALL"}
\* the steps that close the NFS side, and those that close the MOUNT side
IsNfsSide(e) == e.op \in {"UMNT", "NFS_DESTROY"} \/ e = Ev("free", "mountpath")
IsMountSide(e) == e.op = "MNT_DESTROY" \/ e = Ev("free", "remotehost")

\* C1: after every command a live MOUNT client exists if and only if
\* remotehost is non-null.
C1_MountChannelIffHost ==
    (mntclient = "live") <=> (remotehost # NULL)

\* C2: after every command a live NFS client exists if and only if mountpath
\* is non-null, and no command reaches through an NFS client pointer that is
\* not live.
C2_NfsChannelIffMounted ==
    /\ (nfsclient = "live") <=> (mountpath # NULL)
    /\ \A i \in 1..Len(log) : log[i].op = "NFS_AUTH" => log[i].a = "live"

\* C3: a cd that fails, at whichever component, leaves the current directory
\* handle exactly as it was before the command.
C3_FailedCdKeepsHandle ==
    (cmd.name = "cd" /\ cmd.ret = 0) => directory_handle = pre.directory_handle

\* a cd that resolved its first component and failed at the second because
\* that is not a directory
C3_Witness ==
    /\ cmd.name = "cd" /\ cmd.ret = 0
    /\ Len(log) = 2 /\ log[2].op = "LOOKUP" /\ log[2].a.dir # log[1].a.dir
    /\ out = <<"is not a directory">>
    /\ directory_handle = pre.directory_handle

\* the reference walk: the components of P between slashes, empty ones
\* dropped, looked up one after the other
RECURSIVE Components(_, _)
Components(P, acc) ==
    IF P = <<>> THEN IF acc = <<>> THEN <<>> ELSE <<acc>>
    ELSE IF Head(P) = "/"
         THEN (IF acc = <<>> THEN <<>> ELSE <<acc>>) \o Components(Tail(P), <<>>)
         ELSE Components(Tail(P), Append(acc, Head(P)))
NoHandle == [data_len |-> -1, data_val |-> Zeros(FhSize)]
RECURSIVE RefWalk(_, _)
RefWalk(h, comps) ==
    IF comps = <<>> THEN h
    ELSE LET r == ServerLookup(h, Head(comps), TRUE)
         IN  IF r.status = "NFS3_OK" THEN RefWalk(r.object, Tail(comps))
             ELSE NoHandle

\* C4: after a successful cd P the current directory handle is the one the
\* walk of P's non-empty components reaches, from the mount root when P
\* begins with a slash and from the previous directory otherwise; cd alone
\* yields the mount root.  The mount root is the handle the session was
\* mounted on, by mount or by handle.
C4_CdReachesWalk ==
    (cmd.name = "cd" /\ cmd.ret = 1 /\ Len(cmd.arg.argv) <= 1) =>
        directory_handle =
            IF cmd.arg.argv = <<>> THEN mounted_on
            ELSE LET P == cmd.arg.argv[1]
                 IN  RefWalk(IF Head(P) = "/" THEN mounted_on
                             ELSE pre.directory_handle,
                             Components(P, <<>>))

C6_FailedMountLeavesNothing ==
    (/\ cmd.name = "mount" /\ Len(cmd.arg.paths) = 1 /\ cmd.ret = 0
     /\ running = "running"
     /\ pre.remotehost # NULL /\ pre.mntclient = "live"
     /\ pre.mountpath = NULL) =>
        /\ remotehost = pre.remotehost /\ mntclient = "live"
        /\ mountpath = NULL
        /\ nfsclient # "live"
        /\ directory_handle = pre.directory_handle
        /\ transfersize = pre.transfersize

\* C7: umount in Mounted state sends UMNT for the mount path, then destroys
\* the NFS channel, and leaves the session HostBound: mount path null,
\* remote host and MOUNT channel as they were.
C7_UmountToHostBound ==
    (cmd.name = "umount" /\ cmd.arg.argc = 1 /\ pre.mountpath # NULL) =>
        /\ HasEv("UMNT", pre.mountpath)
        /\ HasOp("NFS_DESTROY") /\ AllBefore("UMNT", "NFS_DESTROY")
        /\ nfsclient # "live"
        /\ mountpath = NULL
        /\ remotehost = pre.remotehost /\ remotehost # NULL
        /\ mntclient = pre.mntclient /\ mntclient = "live"
        /\ ~HasOp("MNT_DESTROY")

C7_Witness ==
    /\ cmd.name = "umount" /\ pre.mountpath = "/a"
    /\ log[1] = Ev("UMNT", "/a") /\ mountpath = NULL /\ mntclient = "live"

\* C8: closing a session, on quit or end of input or when host replaces a
\* bound host, closes the NFS side first (when a file system is mounted:
\* UMNT, mount path freed, NFS channel destroyed) and only then clears the
\* host and destroys the MOUNT channel; for host all of it comes before any
\* resolution or channel creation.
C8_CloseOrder ==
    (/\ cmd.name = "quit" \/ (cmd.name = "host" /\ Len(cmd.arg.argv) = 1)
     /\ pre.remotehost # NULL) =>
        /\ pre.mountpath # NULL =>
             /\ HasEv("UMNT", pre.mountpath) /\ HasOp("NFS_DESTROY")
             /\ HasEv("free", "mountpath")
             /\ EvBefore("UMNT", pre.mountpath, "NFS_DESTROY")
        /\ HasEv("free", "remotehost")
        /\ pre.mntclient = "live" => HasOp("MNT_DESTROY")
        /\ \A i, j \in 1..Len(log) :
              (IsNfsSide(log[i]) /\ IsMountSide(log[j])) => i < j
        /\ \A i, j \in 1..Len(log) :
              (/\ IsNfsSide(log[i]) \/ IsMountSide(log[i])
               /\ log[j].op \in {"RESOLVE", "MNT_CREATE"}) => i < j
        /\ cmd.name = "quit" =>
              /\ remotehost = NULL /\ mountpath = NULL /\ mntclient # "live"
              /\ pre.mountpath # NULL => nfsclient # "live"

C8_Witness ==
    /\ cmd.name = "host" /\ pre.mountpath # NULL /\ pre.mntclient = "live"
    /\ HasOp("RESOLVE") /\ HasOp("MNT_CREATE") /\ HasOp("MNT_DESTROY")
    /\ HasOp("UMNT")

IsFullHandle(args) == Len(args) = SizeofNfsFh3
\* the handle a full argument list spells
ArgHandle(args) ==
    [data_len |-> args[1] % 256,
     data_val |-> [i \in 1..FhSize |-> args[i + 1] % 256]]

\* C9: handle H with a full handle in HostBound state opens an NFS channel
\* with no MNT call, sets the mount path to <handle>, and installs H as the
\* current directory handle and as the root handle that cd and df start from.
C9_HandleInstallsRoot ==
    (/\ cmd.name = "handle" /\ IsFullHandle(cmd.arg.args) /\ cmd.ret = 1
     /\ pre.remotehost # NULL /\ pre.mountpath = NULL) =>
        /\ ~HasOp("MNT") /\ ~HasOp("PMAP_MNT")
        /\ HasOp("NFS_CREATE") /\ nfsclient = "live"
        /\ mountpath = "<handle>"
        /\ directory_handle = ArgHandle(cmd.arg.args)
        /\ ~mountpoint.null
        /\ mountpoint.fhandle.fhandle3_len = ArgHandle(cmd.arg.args).data_len
        /\ mountpoint.fhandle.fhandle3_val = ArgHandle(cmd.arg.args).data_val

\* C10 as stated: handle H in Mounted state only replaces the current
\* directory handle; mount path, root handle and NFS channel stay, and no
\* MOUNT3 call is sent.
C10_HandleOnlyReplaces ==
    (/\ cmd.name = "handle" /\ IsFullHandle(cmd.arg.args)
     /\ pre.mountpath # NULL) =>
        /\ directory_handle = ArgHandle(cmd.arg.args)
        /\ mountpath = pre.mountpath
        /\ mountpoint = pre.mountpoint
        /\ nfsclient = "live" /\ ~HasOp("NFS_DESTROY") /\ ~HasOp("NFS_CREATE")
        /\ \A op \in MountCalls : ~HasOp(op)

\* C10 amended: handle H in Mounted state replaces the current directory
\* handle with the bytes given and remounts on it: UMNT is sent for the old
\* mount path and the old NFS channel destroyed, then a new NFS channel is
\* opened with no MNT call.  When that succeeds the session is Mounted with
\* mount path <handle> and the transfer size read again; when it does not,
\* the mount path is null.  Root handle, remote host and MOUNT channel are
\* unchanged.
C10_HandleRemounts ==
    (/\ cmd.name = "handle" /\ IsFullHandle(cmd.arg.args)
     /\ pre.mountpath # NULL) =>
        /\ directory_handle = ArgHandle(cmd.arg.args)
        /\ Len(log) >= 4
        /\ log[1] = Ev("UMNT", pre.mountpath)
        /\ log[3] = Ev("NFS_DESTROY", "")
        /\ log[4].op \in {"GETPORT", "NFS_CREATE"} /\ HasOp("NFS_CREATE")
        /\ \A i \in 2..Len(log) : log[i].op \notin MountCalls
        /\ mountpoint = pre.mountpoint
        /\ remotehost = pre.remotehost /\ mntclient = pre.mntclient
        /\ cmd.ret = 1 =>
              /\ mountpath = "<handle>" /\ nfsclient = "live"
              /\ transfersize = IF cmd.arg.env.fsinfo.kind = "ok"
                                THEN cmd.arg.env.fsinfo.wtmax ELSE 8192
        /\ cmd.ret = 0 => mountpath = NULL

C10_Witness ==
    /\ cmd.name = "handle" /\ IsFullHandle(cmd.arg.args)
    /\ pre.mountpath = "/a" /\ cmd.ret = 1
    /\ mountpath = "<handle>"
    /\ directory_handle = NodeFh(6)
    /\ mountpoint = MntOk("/a")

\* C11: a uid or gid command replaces only the authenticator of the NFS
\* channel: the channel stays open, no RPC is sent, remote host, MOUNT
\* channel, mount path, current directory handle and transfer size stay as
\* they were, and the command returns to the prompt; when there is no NFS
\* channel nothing but the stored credentials changes.
C11_UidGidOnlyReauth ==
    (cmd.name \in {"uid", "gid"}) =>
        /\ running = "running"
        /\ remotehost = pre.remotehost /\ mntclient = pre.mntclient
        /\ nfsclient = pre.nfsclient /\ mountpath = pre.mountpath
        /\ mountpoint = pre.mountpoint
        /\ directory_handle = pre.directory_handle
        /\ transfersize = pre.transfersize
        /\ \A i \in 1..Len(log) : log[i] = Ev("NFS_AUTH", "live")
        /\ pre.nfsclient # "live" => log = <<>>

\* the NFS client creations of the command, by transport
NfsTried(proto) ==
    \E i \in 1..Len(log) : log[i].op = "NFS_CREATE" /\ log[i].a.proto = proto

\* C13: during mount a UDP NFS client is attempted after a failed TCP
\* client creation if and only if no transport flag (-T or -U) was given;
\* with a transport flag only one transport is tried and its failure fails
\* the mount (no MNT call, nothing mounted).
C13_UdpFallbackIffNoFlag ==
    (cmd.name = "mount" /\ HasOp("NFS_CREATE")) =>
        LET forced == cmd.arg.flags \cap {"T", "U"} # {}
        IN  /\ (NfsTried("tcp") /\ NfsTried("udp"))
                   <=> (~forced /\ ~cmd.arg.env.tcp)
            /\ forced =>
                   /\ ~(NfsTried("tcp") /\ NfsTried("udp"))
                   /\ nfsclient = "null" =>
                          (mountpath = NULL /\ ~HasOp("MNT") /\ ~HasOp("PMAP_MNT"))

\* C14: with -P port the NFS channel of mount or handle is opened to that
\* port: no GETPORT lookup is made for the NFS program, and the socket of
\* the NFS client is not one connected elsewhere (the client library
\* connects it to the port given).
C14_PortOverridesPortmap ==
    (cmd.name \in {"mount", "handle"} /\ cmd.arg.port # 0) =>
        \A i \in 1..Len(log) :
            /\ log[i].op = "NFS_CREATE" =>
                   (log[i].a.port = cmd.arg.port /\ log[i].a.sock = RPC_ANYSOCK)
            /\ log[i].op = "GETPORT" => log[i].a.prog # "NFS"

\* what each of the commands that need a mounted file system prints when
\* there is none
NoMountMessage ==
    [cd |-> "cd: no remote file system mounted",
     cat |-> "cat: no remote file system mounted",
     ls |-> "ls: no remote file system mounted",
     get |-> "get: no remote file system mounted",
     df |-> "df: no remote file system mounted",
     rm |-> "rm: no remote file system mounted",
     ln |-> "ln: no remote file system mounted",
     mv |-> "mv: no remote file system mounted",
     mkdir |-> "mkdir: no remote file system mounted",
     rmdir |-> "rmdir: no remote file system mounted",
     chmod |-> "chmod: no remote file system mounted",
     chown |-> "chown: no remote file system mounted",
     put |-> "put: no remote file system mounted",
     mknod |-> "mknod: no remote file system mounted"]

Readdirs == SelectSeq(log, LAMBDA e : e.op = "READDIR")
ReaddirReply(k) ==
    IF k <= Len(cmd.arg.env.script) THEN cmd.arg.env.script[k] ELSE ReaddirNone
Iterates == cmd.name \in {"ls", "get"} /\ pre.mountpath # NULL

\* C15: a directory iteration (of ls or get) sends at least one READDIR,
\* also for an empty directory; the first has cookie 0, each has count
\* 8192; and a READDIR is sent only when every reply before it was OK
\* with eof false, so none follows the first reply with eof true.
C15_ReaddirUntilEof ==
    Iterates =>
        /\ Len(Readdirs) >= 1
        /\ Readdirs[1].a.cookie = 0
        /\ \A k \in 1..Len(Readdirs) :
               /\ Readdirs[k].a.count = 8192
               /\ Readdirs[k].a.dir = pre.directory_handle
               /\ k > 1 => (ReaddirReply(k - 1).status = "NFS3_OK"
                            /\ ~ReaddirReply(k - 1).eof)

\* the first reply has eof true and the server had more to say; and an
\* empty directory
C15_Witness ==
    /\ Iterates
    /\ Len(cmd.arg.env.script) = 2
    /\ ReaddirReply(1).eof /\ ReaddirReply(1).entries # <<>>
    /\ ReaddirReply(2).status = "NFS3_OK"
    /\ Len(Readdirs) = 1

\* a READDIR of the iteration got no reply or a status other than OK
ReaddirFailed == \E k \in 1..Len(Readdirs) : ReaddirReply(k).status # "NFS3_OK"

\* C16: when a READDIR of a directory iteration fails, the caller gets no
\* listing: ls prints no name and makes no LOOKUP, get looks up, asks about
\* and transfers no file; only the message of the failure is printed.
C16_FailedReaddirNoListing ==
    (Iterates /\ ReaddirFailed) =>
        /\ Len(out) = 1
        /\ ~HasOp("LOOKUP") /\ ~HasOp("FGETS") /\ ~HasOp("FOPEN") /\ ~HasOp("READ")

\* the table getdirentries handed to the caller, and the names the replies
\* of the iteration held
Listing == SelectSeq(log, LAMBDA e : e.op = "TABLE")[1].a
Returned ==
    UNION {{ReaddirReply(k).entries[i].name : i \in 1..Len(ReaddirReply(k).entries)} :
              k \in 1..Len(Readdirs)}
Completed == Iterates /\ ~ReaddirFailed /\ HasOp("TABLE")

\* C17: the listing of a completed directory iteration is in the order of
\* strcmp and holds each name that a READDIR reply of the iteration
\* returned exactly once, and no other name.
C17_ListingSortedOnce ==
    Completed =>
        /\ \A i \in 1..(Len(Listing) - 1) : strcmp(Listing[i], Listing[i + 1]) < 0
        /\ {Listing[i] : i \in 1..Len(Listing)} = Returned

\* the content the server holds for a name of the current directory and
\* for a file handle, and the reply to the READ at log[i] (the k-th READ
\* of the command)
ContentOfName(name) == IF name = GName THEN remote.data ELSE FContent
ContentOf(fh) == IF fh = NodeFh(GNode) THEN remote.data ELSE FContent
ReadReply(i) ==
    ServerRead(ContentOf(log[i].a.file), log[i].a.offset, log[i].a.count,
               cmd.arg.env.split,
               Cardinality({j \in 1..i : log[j].op = "READ"}))

\* C18: when get transfers a regular file of size S and no READ fails,
\* however the server splits the data into READ replies, the first READ is
\* at offset 0 and each next one at the offset plus the bytes the reply
\* returned; a further READ is sent only while the reply had eof false
\* and the offset is below S, and the loop ends when the offset is S
\* or more or the reply has eof true; the local file then holds exactly
\* the S bytes of the server.
C18_GetCopiesFile ==
    (cmd.name = "get" /\ cmd.arg.env.rfail = 0 /\ running = "running") =>
        \A i \in 1..Len(log) :
            /\ (log[i].op = "READ" /\ log[i - 1].op = "FOPEN") => log[i].a.offset = 0
            /\ (log[i].op = "READ" /\ log[i - 1].op = "READ") =>
                   /\ log[i].a.file = log[i - 1].a.file
                   /\ log[i].a.offset
                          = log[i - 1].a.offset + Len(ReadReply(i - 1).data)
                   /\ ~ReadReply(i - 1).eof
                   /\ log[i].a.offset < Len(ContentOf(log[i].a.file))
            /\ (log[i].op = "FCLOSE" /\ log[i - 1].op = "READ") =>
                   \/ ReadReply(i - 1).eof
                   \/ log[i - 1].a.offset + Len(ReadReply(i - 1).data)
                          >= Len(ContentOf(log[i - 1].a.file))
            /\ (log[i].op = "FCLOSE" /\ log[i - 1].op = "FOPEN") =>
                   ContentOfName(log[i].a) = <<>>
            /\ log[i].op = "FCLOSE" =>
                   /\ local[log[i].a].exists
                   /\ local[log[i].a].data = ContentOfName(log[i].a)

\* the four bytes of g arrive in replies of one, one and two bytes
C18_Witness ==
    /\ cmd.name = "get"
    /\ cmd.arg.env.split = <<1, 1>>
    /\ cmd.arg.env.rfail = 0
    /\ HasEv("FCLOSE", GName)
    /\ remote.data = <<1, 2, 3, 4>>
    /\ local[GName].data = <<1, 2, 3, 4>>
    /\ Cardinality({i \in 1..Len(log) : log[i].op = "READ"}) >= 3

\* C19: when a put of a local file to the remote name g has completed and
\* a get then transfers g without a failing call, the local copy that get
\* writes holds exactly the bytes of the file that was put, whatever the
\* server held under that name before the put.
C19_PutGetRoundTrip ==
    (/\ cmd.name = "get"
     /\ last_put.name = GName
     /\ cmd.arg.env.rfail = 0
     /\ running = "running"
     /\ HasEv("FCLOSE", GName))
        => local[GName].data = last_put.data

\* the first argument of chown names a gid: a dot with a digit after it
GidGiven(arg) == \E i \in 1..(Len(arg) - 1) : arg[i] = "." /\ IsDigit(arg[i + 1], 10)

\* C20: every SETATTR of chmod and chown follows a LOOKUP of the target
\* that succeeded and names the object it returned, has guard check false,
\* never sets size, atime or mtime, and sets only what was asked for:
\* chmod the mode alone; chown the uid, and the gid exactly when a gid was
\* given.
C20_SetattrOnlyRequested ==
    cmd.name \in {"chmod", "chown"} =>
        \A i \in 1..Len(log) : log[i].op = "SETATTR" =>
            LET new == log[i].a.new_attributes
                dres == FileLookup(Cur, pre.directory_handle, cmd.arg.argv[2])
            IN  /\ i > 1 /\ log[i - 1].op = "LOOKUP"
                /\ log[i - 1].a.name = cmd.arg.argv[2]
                /\ cmd.arg.env.lost = 0
                /\ dres.status = "NFS3_OK" /\ log[i].a.object = dres.object
                /\ ~log[i].a.guard.check
                /\ ~new.size.set_it /\ ~new.atime.set_it /\ ~new.mtime.set_it
                /\ new.mode.set_it <=> cmd.name = "chmod"
                /\ new.uid.set_it <=> cmd.name = "chown"
                /\ new.gid.set_it <=> (cmd.name = "chown" /\ GidGiven(cmd.arg.argv[1]))

\* the call each of the one-call commands makes, and the number of names
\* each takes
OneCallOp ==
    [rm |-> "REMOVE", rmdir |-> "RMDIR", mv |-> "RENAME", ln |-> "LINK",
     mkdir |-> "MKDIR"]
NamesTaken == [rm |-> 1, rmdir |-> 1, mv |-> 2, ln |-> 2, mkdir |-> 1]
ValidOneCall ==
    /\ cmd.name \in DOMAIN OneCallOp
    /\ pre.mountpath # NULL
    /\ Len(cmd.arg.argv) = NamesTaken[cmd.name]
\* the directory arguments of the call e are the directory handle d
DirsAre(e, d) ==
    IF e.op = "RENAME" THEN e.a.fromdir = d /\ e.a.todir = d ELSE e.a.dir = d

\* C21 as stated: rm, rmdir, mv, ln and mkdir with valid arguments in a
\* mounted session make exactly one NFS call, REMOVE, RMDIR, RENAME, LINK
\* or MKDIR, with the current directory handle as its directory
\* argument(s).
C21_ExactlyOneCall ==
    ValidOneCall =>
        /\ Len(log) = 1
        /\ log[1].op = OneCallOp[cmd.name]
        /\ DirsAre(log[1], pre.directory_handle)

\* C21 amended: rm, rmdir, mv and mkdir make exactly one call, in the
\* current directory; ln first makes a LOOKUP of its first name in the
\* current directory, and makes one LINK, for the object found and with
\* the current directory as the link directory, exactly when that LOOKUP
\* succeeded, and no other call.
C21_OneCallOrLookupLink ==
    ValidOneCall =>
        IF cmd.name # "ln"
        THEN /\ Len(log) = 1
             /\ log[1].op = OneCallOp[cmd.name]
             /\ DirsAre(log[1], pre.directory_handle)
        ELSE LET dres == FileLookup(Cur, pre.directory_handle, cmd.arg.argv[1])
                 found == cmd.arg.env.lost = 0 /\ dres.status = "NFS3_OK"
             IN  /\ Len(log) = IF found THEN 2 ELSE 1
                 /\ log[1] = Ev("LOOKUP", [dir |-> pre.directory_handle,
                                          name |-> cmd.arg.argv[1]])
                 /\ found => log[2] = Ev("LINK", [file |-> dres.object,
                                                 dir |-> pre.directory_handle,
                                                 name |-> cmd.arg.argv[2]])

\* ln f h below the root of the mount
C21_Witness ==
    /\ cmd.name = "ln"
    /\ ValidOneCall
    /\ pre.directory_handle = NodeFh(2)
    /\ Len(log) = 2
    /\ log[2].op = "LINK"

Reads == {i \in 1..Len(log) : log[i].op = "READ"}

\* C22: every READ that get or cat issues asks for no more than the read
\* maximum the server advertised in its FSINFO reply, whatever rtmax and
\* wtmax that reply carried
C22_ReadWithinRtmax ==
    cmd.name \in {"get", "cat"} =>
        \A i \in Reads : log[i].a.count <= rtmax

\* the same, for servers whose write maximum does not exceed the read maximum
C22_ReadWithinRtmaxOfWtmax ==
    cmd.name \in {"get", "cat"} /\ pre.transfersize <= rtmax =>
        \A i \in Reads : log[i].a.count <= rtmax
C22_ReadIssued == cmd.name \in {"get", "cat"} /\ Reads # {} /\ pre.transfersize < rtmax
C22_ReadCountIsWtmax ==
    cmd.name \in {"get", "cat"} =>
        \A i \in Reads : log[i].a.count = pre.transfersize

\* the reference glob: does s from s[i] on match p from p[j] on
ClassEnd(p, j) == CHOOSE e \in j + 1..Len(p) : p[e] = "]" /\ \A k \in j + 1..e - 1 : p[k] # "]"
InClass(ch, p, j, e) ==
    \E k \in j + 1..e - 1 :
        IF p[k] = "-" /\ k - 1 > j /\ k + 1 < e
        THEN Code(p[k - 1]) <= Code(ch) /\ Code(ch) <= Code(p[k + 1])
        ELSE p[k] = ch
RECURSIVE Glob(_, _, _, _)
Glob(s, i, p, j) ==
    IF j > Len(p) THEN i > Len(s)
    ELSE IF p[j] = "*" THEN \E k \in i..Len(s) + 1 : Glob(s, k, p, j + 1)
    ELSE IF i > Len(s) THEN FALSE
    ELSE IF p[j] = "?" THEN Glob(s, i + 1, p, j + 1)
    ELSE IF p[j] = "["
    THEN LET e == ClassEnd(p, j)
         IN  InClass(s[i], p, j, e) /\ Glob(s, i + 1, p, e + 1)
    ELSE p[j] = s[i] /\ Glob(s, i + 1, p, j + 1)
\* a leading dot of the name is matched only by a literal dot
GlobName(s, p) == (s[1] = "." => p[1] = ".") /\ Glob(s, 1, p, 1)
GlobAny(s, argv) == argv = <<>> \/ \E k \in 1..Len(argv) : GlobName(s, argv[k])
Matched == cmd.name = "match"

\* C23: match(name, patterns) is 1 exactly when the reference glob matches
\* the name against one of the patterns, or the list is empty; 0 otherwise
C23_MatchIsGlob ==
    Matched => cmd.ret = IF GlobAny(cmd.arg.s, cmd.arg.argv) THEN 1 ELSE 0

\* a pattern of the list has a star directly followed by a star
StarStar(argv) ==
    \E k \in 1..Len(argv) : \E j \in 1..Len(argv[k]) - 1 :
        argv[k][j] = "*" /\ argv[k][j + 1] = "*"
C23_MatchIsGlobNoStarStar ==
    Matched /\ ~StarStar(cmd.arg.argv) =>
        cmd.ret = IF GlobAny(cmd.arg.s, cmd.arg.argv) THEN 1 ELSE 0
\* match never says 1 where the reference glob says no
C23_MatchWithinGlob ==
    Matched /\ cmd.ret # 0 => cmd.ret = 1 /\ GlobAny(cmd.arg.s, cmd.arg.argv)

\* one pattern was tried against a name that begins with a dot
DotName == Matched /\ Len(cmd.arg.argv) = 1 /\ cmd.arg.s[1] = "."

C24_LeadingDotGlob ==
    DotName /\ ~StarStar(cmd.arg.argv) =>
        cmd.ret = IF cmd.arg.argv[1][1] = "." /\ Glob(cmd.arg.s, 1, cmd.arg.argv[1], 1)
                  THEN 1 ELSE 0

\* a plain ls of the directory that holds a, b and .hidden
PlainLsOfHidden ==
    cmd.name = "ls" /\ cmd.arg.argv = <<>> /\ cmd.arg.env.script = HiddenDir

C25_StarOmitsDotNames ==
    (cmd.name = "ls" /\ cmd.arg.argv = << <<"*">> >> /\ cmd.arg.env.script = HiddenDir)
        => out = << <<"a">>, <<"b">> >>

\* privileged got its socket and no bind failed but for a port in use
PortsProbed == cmd.name = "privileged" /\ cmd.arg.env.socket /\ ~cmd.arg.env.eacces
FreePorts(range) == range \ cmd.arg.env.inuse
Highest(S) == CHOOSE m \in S : \A n \in S : n <= m
ProbedDownFrom(top, last) ==
    SelectSeq(log, LAMBDA e : e.op = "BIND")
        = [i \in 1..(top - last + 1) |-> Ev("BIND", top - i + 1)]
AllInUseSaid == Len(out) = 1 /\ out[1] = "privileged socket: All ports in use"

\* C26: privileged probes downward from the top reserved port and returns a
\* socket bound to the highest free port of the reserved range (the upper
\* half below IPPORT_RESERVED, its lowest port included); it says "All ports
\* in use" and fails only when every port of the range is occupied
C26_HighestFreePort ==
    PortsProbed =>
        IF FreePorts(ReservedPorts) # {}
        THEN /\ cmd.ret = Bound(Highest(FreePorts(ReservedPorts)))
             /\ ProbedDownFrom(IPPORT_RESERVED - 1, cmd.ret.port)
             /\ out = <<>>
        ELSE cmd.ret = NoSocket /\ AllInUseSaid

\* the same over the range without its lowest port
C26_HighestFreePortAboveLowest ==
    PortsProbed =>
        LET range == ReservedPorts \ {IPPORT_RESERVED \div 2}
        IN  IF FreePorts(range) # {}
            THEN /\ cmd.ret = Bound(Highest(FreePorts(range)))
                 /\ ProbedDownFrom(IPPORT_RESERVED - 1, cmd.ret.port)
                 /\ out = <<>>
            ELSE /\ cmd.ret = NoSocket /\ AllInUseSaid
                 /\ ProbedDownFrom(IPPORT_RESERVED - 1, IPPORT_RESERVED \div 2 + 1)

\* a host command with a route expression: what is written after the "@",
\* its hops and its destination, and the option handed to setsockopt
Routed == cmd.name = "host" /\ strchr(cmd.arg.argv[1], "@") # 0
AfterAt == SubSeq(cmd.arg.argv[1], strchr(cmd.arg.argv[1], "@") + 1, Len(cmd.arg.argv[1]))
Written == SelectSeq(AfterAt, LAMBDA x : x.t # ":")
HopsWritten == SubSeq(Written, 1, Len(Written) - 1)
AddrOf(x) ==
    IF x.t = "ip" THEN x.v ELSE IF cmd.arg.env.resolves THEN NameAddr ELSE INADDR_NONE
RECURSIVE Addrs(_)
Addrs(xs) == IF xs = <<>> THEN <<>> ELSE AddrOf(Head(xs)) \o Addrs(Tail(xs))
Installed == SelectSeq(log, LAMBDA e : e.op = "SETSOCKOPT")
LsrrOption(xs) == Padded(<<IPOPT_LSRR, 3 + 4 * Len(xs), IPOPT_MINOFF>> \o Addrs(xs))

\* C27: for a route expression with the hops hop1..hopn, the option handed
\* to setsockopt is LSRR, the length 3 + 4n, the pointer 4, then the n hop
\* addresses in the order written, zero padded to a multiple of 4 bytes
C27_OptionHoldsHops ==
    (Routed /\ Installed # <<>>) =>
        /\ Len(Installed) = 1
        /\ Installed[1].a.ipopts = LsrrOption(HopsWritten)

\* the same with the destination as the last address of the option
C27_OptionHoldsHopsAndDest ==
    (Routed /\ Installed # <<>>) =>
        /\ Len(Installed) = 1
        /\ Installed[1].a.ipopts = LsrrOption(Written)
\* the bytes run over the 32 of ipopts only for a route of 8 or more
\* addresses, and then whenever the route loop is gone through
C27_RouteOverflows ==
    Routed =>
        /\ HasOp("OVERFLOW") => 3 + 4 * Len(Written) > SizeofIpopts
        /\ (3 + 4 * Len(Written) > SizeofIpopts /\ Installed # <<>>) => HasOp("OVERFLOW")
C27_Overflowed == Routed /\ HasOp("OVERFLOW") /\ running = "crashed"
C27_NoCrashWithinIpopts ==
    (Routed /\ 3 + 4 * Len(Written) <= SizeofIpopts) => running = "running"

\* a host command with <localaddr>:<dest> and no "@", met by no failure of
\* the resolver, the ports or the transports
SrcColonDest ==
    /\ cmd.name = "host"
    /\ strchr(cmd.arg.argv[1], "@") = 0
    /\ cmd.arg.env.resolves /\ cmd.arg.env.tcp /\ cmd.arg.env.setup = "connected"
    /\ ~cmd.arg.env.eacces /\ cmd.arg.env.inuse = {}

\* C28: host srcaddr:destination is handled like the "@" form without hops:
\* the socket is bound to srcaddr, no route is installed, and the session
\* ends bound to the destination with a live MOUNT client on that socket
C28_SrcColonDestBinds ==
    SrcColonDest =>
        /\ running = "running"
        /\ cmd.ret = 1
        /\ remotehost = "10.0.0.1"
        /\ mntclient = "live"
        /\ Installed = <<>>
        /\ \E i \in 1..Len(log) :
               log[i] = Ev("SRCADDR", AddrOf(cmd.arg.argv[1][1]))
        /\ \E i \in 1..Len(log) :
               log[i].op = "CHANNEL" /\ log[i].a.sock = "socket"

\* what happens instead: the process ends in sourceroute, after the previous
\* host was closed and before any socket is taken
C28_SrcColonDestCrashes ==
    ((cmd.name = "host" /\ strchr(cmd.arg.argv[1], "@") = 0) => cmd.ret = 0)
    /\ (SrcColonDest =>
          /\ running = "crashed"
          /\ ~HasOp("SOCKET") /\ ~HasOp("SRCADDR") /\ ~HasOp("MNT_CREATE"))
\* the "@" form with a local address and no hops does end bound
C28_SrcAtDestBinds ==
    (cmd.name = "host" /\ cmd.arg.argv[1] = <<LocalAddr, Sep("@"), Dest>>
       /\ cmd.arg.env.resolves /\ cmd.arg.env.tcp /\ cmd.arg.env.setup = "connected"
       /\ ~cmd.arg.env.eacces /\ cmd.arg.env.inuse = {} /\ cmd.arg.env.setsockopt) =>
        /\ running = "running" /\ cmd.ret = 1
        /\ remotehost = "10.0.0.1" /\ mntclient = "live"
        /\ \E i \in 1..Len(log) : log[i] = Ev("SRCADDR", LocalAddr.v)
        /\ \E i \in 1..Len(log) :
               log[i] = Ev("CHANNEL", Bound(IPPORT_RESERVED - 1))

\* C29: no error ends the process; the command loop is left only by quit
\* (or the end of input), whatever the commands before it met
C29_OnlyQuitEnds ==
    running # "running" => cmd.name = "quit" /\ running = "exit0"

\* what else ends it: uid with a secret key while an NFS client exists (or
\* any later channel creation with AUTH_DES) exits with status 1
C29_ExitOneIsSecureNfs ==
    running = "exit1" =>
        /\ authtype = "AUTH_DES"
        /\ out # <<>>
        /\ out[Len(out)] = "create_authenticator: no secure nfs support"
C29_UidKeyExits ==
    (cmd.name = "uid" /\ cmd.arg.argc = 3 /\ pre.nfsclient # "null") =>
        running # "running"

\* the usage line of each command with fixed arguments, and the numbers of
\* arguments it takes
UsageOf ==
    [rm |-> "Usage: rm <file>", rmdir |-> "Usage: rmdir <directory>",
     mkdir |-> "Usage: mkdir <directory>", ln |-> "Usage: ln <file1> <file2>",
     mv |-> "Usage: mv <file1> <file2>", chmod |-> "Usage: chmod <mode> <file>",
     chown |-> "Usage: chown <uid>[.<gid>] <file>",
     mknod |-> "Usage: mknod <name> [b/c major minor] [p]",
     put |-> "Usage: put <local-file> [<remote-file>]"]
Takes ==
    [rm |-> {1}, rmdir |-> {1}, mkdir |-> {1}, ln |-> {2}, mv |-> {2}, chmod |-> {2},
     chown |-> {2}, mknod |-> {2, 4}, put |-> {1, 2}]
WrongCount == cmd.name \in DOMAIN Takes /\ Len(cmd.arg.argv) \notin Takes[cmd.name]
AllDigits(str, base) == \A i \in 1..Len(str) : IsDigit(str[i], base)
\* a type that is not one letter, a letter that does not go with the number
\* of arguments, a mode that is not octal, a uid that is not a number
Malformed ==
    /\ cmd.name \in {"mknod", "chmod", "chown"}
    /\ ~WrongCount
    /\ CASE cmd.name = "mknod" ->
               cmd.arg.argv[2] \notin (IF Len(cmd.arg.argv) = 2 THEN {<<"p">>}
                                        ELSE {<<"b">>, <<"c">>})
         [] cmd.name = "chmod" -> ~AllDigits(cmd.arg.argv[1], 8)
         [] cmd.name = "chown" -> ~GidGiven(cmd.arg.argv[1])
                                    /\ ~AllDigits(cmd.arg.argv[1], 10)
NoOp ==
    /\ log = <<>>
    /\ Snapshot = pre
    /\ running = "running"

\* C30: an invocation with a wrong number of arguments or a malformed
\* argument prints the usage line of the command and does nothing else: no
\* call is made and the session and its credentials stay as they were
C30_MalformedIsUsageNoOp ==
    (pre.mountpath # NULL /\ (WrongCount \/ Malformed)) =>
        /\ NoOp
        /\ out = <<UsageOf[cmd.name]>>

\* a wrong number of arguments alone is answered so
C30_WrongCountIsUsageNoOp ==
    (pre.mountpath # NULL /\ WrongCount) => NoOp /\ out = <<UsageOf[cmd.name]>>
\* mknod with four arguments and a type letter other than b and c calls
\* MKNOD with type 0
C30_MknodUnknownTypeCalls ==
    (pre.mountpath # NULL /\ cmd.name = "mknod" /\ Malformed
       /\ Len(cmd.arg.argv) = 4 /\ Len(cmd.arg.argv[2]) = 1) =>
        /\ Len(log) = 1
        /\ log[1].op = "MKNOD"
        /\ log[1].a.what.type = 0
\* a mode or uid that does not begin with a digit of its base: a message
\* that is not the usage line, and nothing else
C30_NoNumberIsNoOp ==
    (pre.mountpath # NULL /\ cmd.name \in {"chmod", "chown"} /\ ~WrongCount
       /\ ~IsDigit(cmd.arg.argv[1][1], IF cmd.name = "chmod" THEN 8 ELSE 10)) =>
        /\ NoOp
        /\ out = <<IF cmd.name = "chmod" THEN "chmod: invalid mode"
                    ELSE "chown: invalid uid[.gid]">>
\* gid with more than one argument: no usage line, the gid is reset
C30_GidExtraResets ==
    (cmd.name = "gid" /\ cmd.arg.argc = 3 /\ running = "running") =>
        gid = -2 /\ out = <<>>

\* the last command was interrupted
Interrupted == HasOp("SIGINT")

\* C31: a SIGINT during a command returns to the prompt with the host
\* binding, the mount path, the NFS channel and the current directory
\* handle as they were before the command, in a session the next command
\* can use
C31_SigintKeepsSession ==
    Interrupted =>
        /\ running = "running"
        /\ remotehost = pre.remotehost
        /\ mntclient = pre.mntclient
        /\ mountpath = pre.mountpath
        /\ nfsclient = pre.nfsclient
        /\ directory_handle = pre.directory_handle

\* it holds for the commands that change the session only in their last
\* statement or after their only call
C31_SigintKeepsSessionInCdUmount ==
    (Interrupted /\ (cmd.name \in {"cd", "umount"} \/ log[Len(log)].a = "UMNT")) =>
        /\ running = "running"
        /\ Snapshot = pre
\* a mount over a mount, interrupted after the old one was closed, leaves
\* no mount and a destroyed or half-made NFS client
C31_MountOverMountTornDown ==
    (Interrupted /\ cmd.name = "mount" /\ pre.mountpath # NULL
       /\ log[Len(log)].a \in {"GETPORT", "MNT", "PMAP_MNT"}) =>
        /\ mountpath = NULL
        /\ nfsclient = IF log[Len(log)].a = "GETPORT" THEN "destroyed" ELSE "live"
\* interrupted in FSINFO: mounted, with the transfer size of before
C31_MountedWithOldTransferSize ==
    (Interrupted /\ cmd.name = "mount" /\ log[Len(log)].a = "FSINFO") =>
        mountpath # NULL /\ transfersize = pre.transfersize

\* the status codes of NFS version 3
StatusCodes == {Nfsstat3[n] : n \in DOMAIN Nfsstat3}
Mapped == cmd.name = "nfs_error"

\* C32: nfs_error gives every NFS version 3 status code a message of its
\* own, and every other value the message "UNKNOWN NFS ERROR"
C32_OwnMessageOrUnknown ==
    Mapped =>
        IF cmd.arg.stat \in StatusCodes
        THEN /\ cmd.ret \notin {"UNKNOWN NFS ERROR", nfs_error(-1)}
             /\ \A other \in StatusCodes \ {cmd.arg.stat} : nfs_error(other) # cmd.ret
        ELSE cmd.ret = "UNKNOWN NFS ERROR"

\* what holds: the codes other than XDEV and INVAL have messages of their
\* own; those two and every other value get "UKNOWN NFS ERROR"
C32_OwnMessageButXdevInval ==
    Mapped =>
        IF cmd.arg.stat \in StatusCodes \ {Nfsstat3.NFS3ERR_XDEV, Nfsstat3.NFS3ERR_INVAL}
        THEN /\ cmd.ret \notin {"UNKNOWN NFS ERROR", "UKNOWN NFS ERROR"}
             /\ \A other \in StatusCodes \ {cmd.arg.stat} : nfs_error(other) # cmd.ret
        ELSE cmd.ret = "UKNOWN NFS ERROR"

\* ---------------------------------------------------------------------
\* The cookie of a further READDIR (getdirentries, 2167-2189)
\* ---------------------------------------------------------------------

\* the cookie of the last entry of the reply to the k-th READDIR
LastCookie(k) == ReaddirReply(k).entries[Len(ReaddirReply(k).entries)].cookie

\* C33: whenever a directory iteration sends a further READDIR, its cookie
\* is the cookie of the last entry of the reply just before it; and a reply
\* with eof false and no entries never makes the iteration read a cookie
\* from an entry that is not there (the command goes on running).
C33_CookieOfLastEntry ==
    Iterates =>
        /\ running # "crashed"
        /\ \A k \in 2..Len(Readdirs) :
               /\ ReaddirReply(k - 1).entries # <<>>
               /\ Readdirs[k].a.cookie = LastCookie(k - 1)

\* what the code does: a further READDIR carries the cookie of the last
\* entry of the reply before it, and the iteration ends in a crash when a
\* reply that is OK with eof false has no entries
C33_CookieOfLastEntryOrCrash ==
    Iterates =>
        /\ \A k \in 2..Len(Readdirs) :
               /\ ReaddirReply(k - 1).entries # <<>>
               /\ Readdirs[k].a.cookie = LastCookie(k - 1)
        /\ (/\ Readdirs # <<>>
            /\ ReaddirReply(Len(Readdirs)).status = "NFS3_OK"
            /\ ~ReaddirReply(Len(Readdirs)).eof
            /\ ReaddirReply(Len(Readdirs)).entries = <<>>) => running = "crashed"

\* the iteration crashed on a reply with eof false and no entries
C33_EmptyReplyCrashed ==
    /\ Iterates
    /\ Len(Readdirs) = 1
    /\ ReaddirReply(1).status = "NFS3_OK" /\ ~ReaddirReply(1).eof
    /\ ReaddirReply(1).entries = <<>>
    /\ running = "crashed"

\* a second READDIR was sent with a cookie other than 0
C33_FurtherReaddir ==
    /\ Iterates
    /\ Len(Readdirs) = 2
    /\ Readdirs[2].a.cookie # 0

\* ---------------------------------------------------------------------
\* cd enters directories only (do_cd, 567-588)
\* ---------------------------------------------------------------------

\* the reply to the k-th LOOKUP of a cd, when it got one
CdReply(k) == ServerLookup(log[k].a.dir, log[k].a.name, cmd.arg.env.emptyself)
\* the session is mounted through mount: the MNT result kept in mountpoint
\* is the root the session is mounted on
MountedByMount ==
    /\ mountpath # NULL
    /\ ~mountpoint.null
    /\ fhandle3_to_nfs_fh3(mountpoint.fhandle) = mounted_on
\* some LOOKUP answers OK with type NF3DIR and the handle h
Nf3dirObject(h) ==
    \E d \in Nodes, name \in {e[2] : e \in Entries} :
        LET r == ServerLookup(NodeFh(d), name, TRUE)
        IN  r.status = "NFS3_OK" /\ r.type = "NF3DIR" /\ r.object = h

ReadAt == SelectSeq([i \in 1..Len(log) |-> i], LAMBDA i : log[i].op = "READ")
RECURSIVE ReturnedBefore(_)
ReturnedBefore(k) ==
    IF k <= 1 THEN <<>>
    ELSE ReturnedBefore(k - 1) \o ReadReply(ReadAt[k - 1]).data
\* the bytes the command wrote to standard output, in order
RECURSIVE StdoutFrom(_)
StdoutFrom(i) ==
    IF i > Len(log) THEN <<>>
    ELSE (IF log[i].op = "STDOUT" THEN log[i].a ELSE <<>>) \o StdoutFrom(i + 1)
\* a cat that read a regular file to the end of its loop, no call failing
CatRead ==
    /\ cmd.name = "cat" /\ HasOp("READ")
    /\ cmd.arg.env.rfail = 0
    /\ running = "running"

\* C35: cat F writes to standard output exactly the bytes of the regular
\* file F, in order, however the server splits the data into READ replies:
\* each READ is at the offset that equals the bytes returned so far.
C35_CatWritesFile ==
    CatRead =>
        /\ \A k \in 1..Len(ReadAt) :
               log[ReadAt[k]].a.offset = Len(ReturnedBefore(k))
        /\ StdoutFrom(1) = ContentOf(log[ReadAt[1]].a.file)

\* what the code does: the k-th READ is at offset (k - 1) * transfersize
\* whatever the replies returned, standard output gets the data of the
\* replies in order, and that is the file when every reply is full
C35_CatReadsByTransferSize ==
    CatRead =>
        /\ \A k \in 1..Len(ReadAt) :
               /\ log[ReadAt[k]].a.offset = (k - 1) * pre.transfersize
               /\ log[ReadAt[k]].a.count = pre.transfersize
        /\ StdoutFrom(1) = ReturnedBefore(Len(ReadAt))
                            \o ReadReply(ReadAt[Len(ReadAt)]).data
        /\ cmd.arg.env.split = <<>> =>
               StdoutFrom(1) = ContentOf(log[ReadAt[1]].a.file)

\* a cat whose first READ was answered with one byte of the two asked for
C35_ShortRead ==
    /\ CatRead
    /\ cmd.arg.env.split = <<1>>
    /\ Len(ReadAt) = 2
    /\ StdoutFrom(1) = <<7, 9>>

\* ---------------------------------------------------------------------
\* The READ loops of get and cat, one call at a time (do_get 861-878,
\* do_cat 642-656).  cmd.arg holds the locals of the handler: the file
\* handle, the size LOOKUP reported, offset, and the position in the loop
\* ("top": at the test of the for, "called": a READ is with the server,
\* "done": after the loop).  log holds the READ last sent; for cat, out
\* holds the bytes written to standard output so far.  The server
\* answers every READ with status OK, with as many of the bytes asked
\* for as it likes, none included, and eof true when they reach the end
\* of the file.
\* ---------------------------------------------------------------------
LoopAdvertisements ==
    {[kind |-> "ok", wtmax |-> w, rtmax |-> w] : w \in 0..MaxAdvertised}
InReadLoop == cmd.name \in {"get", "cat"}
At(pc) == InReadLoop /\ cmd.arg.pc = pc

\* the command has looked up a regular file (and get has opened the local
\* file): offset = 0
read_enter ==
    /\ AtPrompt
    /\ \E c \in {"get", "cat"}, name \in {<<"f">>, GName} :
         LET dir == nfs_fh3copy(directory_handle)
             s1 == Emit(Cur, "LOOKUP", [dir |-> dir, name |-> name])
             res == FileLookup(Cur, dir, name)
             s2 == IF c = "get" THEN [s1 EXCEPT !.local[name] = File(<<>>)] ELSE s1
         IN  /\ mountpath # NULL
             /\ res.status = "NFS3_OK" /\ res.type = "NF3REG"
             /\ Commit(s2, Command(c, [name |-> name, file |-> nfs_fh3copy(res.object),
                                       size |-> res.size, offset |-> 0,
                                       pc |-> "top"]))

\* offset < size: rargs.offset = offset; rargs.count = transfersize; the
\* READ is sent.  Otherwise the loop is left.
read_call ==
    /\ At("top")
    /\ IF cmd.arg.offset < cmd.arg.size
       THEN /\ log' = <<Ev("READ", [file |-> cmd.arg.file, offset |-> cmd.arg.offset,
                                    count |-> transfersize])>>
            /\ cmd' = [cmd EXCEPT !.arg.pc = "called"]
       ELSE /\ log' = log
            /\ cmd' = [cmd EXCEPT !.arg.pc = "done"]
    /\ UNCHANGED <<remotehost, mntclient, nfsclient, mountpath, mountpoint,
                   directory_handle, transfersize, authtype, uid, gid, running,
                   out, pre, mounted_on, remote, local, last_put, rtmax>>

\* the reply holds n bytes.  get writes them to the local file, adds n to
\* offset and leaves the loop on eof; cat writes them to standard output
\* and adds transfersize to offset.
read_reply ==
    /\ At("called")
    /\ LET data == FileData(Cur, cmd.arg.file)
           offset == cmd.arg.offset
           left == IF offset < Len(data) THEN Len(data) - offset ELSE 0
       IN  \E n \in 0..Min(transfersize, left) :
             LET res == [data |-> SubSeq(data, offset + 1, offset + n),
                         eof |-> offset + n >= Len(data)]
             IN  IF cmd.name = "get"
                 THEN /\ local' = fwrite(Cur, cmd.arg.name, res.data).local
                      /\ out' = out
                      /\ cmd' = [cmd EXCEPT !.arg.offset = offset + Len(res.data),
                                            !.arg.pc = IF res.eof THEN "done"
                                                       ELSE "top"]
                 ELSE /\ local' = local
                      /\ out' = <<(IF out = <<>> THEN <<>> ELSE out[1]) \o res.data>>
                      /\ cmd' = [cmd EXCEPT !.arg.offset = offset + transfersize,
                                            !.arg.pc = "top"]
    /\ UNCHANGED <<remotehost, mntclient, nfsclient, mountpath, mountpoint,
                   directory_handle, transfersize, authtype, uid, gid, running,
                   log, pre, mounted_on, remote, last_put, rtmax>>

\* the handler returns and the next prompt is printed
read_return ==
    /\ At("done")
    /\ Prompt

InitLoop ==
    \E f \in LoopAdvertisements, l \in LContents, d \in GContents :
        InitIn(MountedOnA(f), l, File(d))

NextLoop ==
    \/ read_enter
    \/ read_call
    \/ read_reply
    \/ read_return

\* the shell is not stopped for ever, and the server answers every READ
SpecLoopFair == InitLoop /\ [][NextLoop]_vars /\ WF_vars(NextLoop)

\* C36: the READ loops of get and cat terminate: for any file size, any
\* negotiated transfer size (a wtmax of 0 included) and a server that
\* answers every READ with OK (zero bytes with eof false included), the
\* command returns to the prompt.
C36_ReadLoopsTerminate == InReadLoop ~> AtPrompt

\* what the code does: with a transfer size above 0 the loop of cat ends,
\* whatever the replies hold
C36_CatTerminatesAboveZero ==
    (cmd.name = "cat" /\ transfersize > 0) ~> AtPrompt

\* with a transfer size of 0 no loop over the files f and g, which are not
\* empty, is ever left
C36_ZeroNeverLeaves ==
    (transfersize = 0 /\ InReadLoop) => cmd.arg.pc # "done"

\* the READ of a loop with transfer size 0 is with the server
C36_ZeroSizeRead ==
    /\ At("called")
    /\ transfersize = 0
    /\ log[1].a.count = 0

\* ---------------------------------------------------------------------
\* mount and handle over a mount (open_nfs 1854-1861, close_nfs 2094-2106)
\* ---------------------------------------------------------------------

\* a mount or handle command that reaches open_nfs in a Mounted session
Remounts ==
    /\ cmd.name \in {"mount", "handle"}
    /\ pre.mountpath # NULL /\ pre.remotehost # NULL
    /\ IF cmd.name = "mount" THEN Len(cmd.arg.paths) = 1
       ELSE IsFullHandle(cmd.arg.args)
\* the steps that open the new mount
OpensNew(e) == e.op \in {"GETPORT", "NFS_CREATE", "MNT", "PMAP_MNT"}

\* C37: when mount P' or handle H is issued while a file system is mounted,
\* the old one is unmounted first: UMNT for the old mount path is sent and
\* the old NFS channel destroyed before any NFS channel is created or MNT
\* sent for the new one; and when the new mount then fails the mount path
\* is null, the session not Mounted on the old path.
C37_RemountClosesFirst ==
    Remounts =>
        /\ Len(log) >= 3
        /\ log[1] = Ev("UMNT", pre.mountpath)
        /\ log[3] = Ev("NFS_DESTROY", "")
        /\ \A i \in 1..3 : ~OpensNew(log[i])
        /\ cmd.ret = 0 => mountpath = NULL

\* mount /b in a session mounted on /a: the MNT for /b is refused after the
\* old mount was closed and a new NFS channel created
C37_Witness ==
    /\ Remounts
    /\ cmd.name = "mount" /\ cmd.arg.paths = <<"/b">> /\ pre.mountpath = "/a"
    /\ cmd.arg.env.mnt = "err"
    /\ log[1] = Ev("UMNT", "/a")
    /\ HasOp("NFS_CREATE") /\ HasEv("MNT", "/b")
    /\ cmd.ret = 0 /\ mountpath = NULL

\* ---------------------------------------------------------------------
\* put writes to the file it created (do_put, 1338-1395)
\* ---------------------------------------------------------------------

\* the CREATE of a put was answered with a status other than OK
CreateRefused ==
    /\ cmd.name = "put" /\ HasOp("CREATE")
    /\ cmd.arg.env.create # "none"
    /\ out # <<>> /\ out[1] = "WARNING: Create failed"

\* C38: put sends WRITE calls only to a file that its own CREATE created:
\* when CREATE returns a status other than OK (the name exists, under
\* EXCLUSIVE) no WRITE is sent, so the remote file that exists is left as
\* it is.
C38_NoWriteAfterRefusedCreate ==
    CreateRefused => ~HasOp("WRITE")

\* what the code does: after a refused CREATE the name is looked up all the
\* same, and when it resolves every WRITE goes to the handle it resolves to
C38_WritesToLookedUp ==
    (cmd.name = "put" /\ HasOp("WRITE")) =>
        /\ HasOp("CREATE") /\ AllBefore("CREATE", "LOOKUP")
        /\ AllBefore("LOOKUP", "WRITE")
        /\ \A i, j \in 1..Len(log) :
               (log[i].op = "LOOKUP" /\ log[j].op = "WRITE") =>
                   log[j].a.file
                       = FileLookup(Cur, log[i].a.dir, log[i].a.name).object

\* put l g where g exists with four bytes and l holds one: CREATE is
\* refused and the first byte of g is overwritten
C38_Overwritten ==
    /\ CreateRefused
    /\ cmd.arg.argv = << <<"l">>, <<"g">> >>
    /\ HasOp("WRITE")
    /\ remote.data = <<5, 2, 3, 4>>

\* ---------------------------------------------------------------------
\* The option buffer of sourceroute (1784-1837)
\* ---------------------------------------------------------------------

\* C39: sourceroute never writes outside the 32 bytes of ipopts and never
\* installs an option longer than them, however many addresses the route
\* expression holds.
C39_WithinIpopts ==
    Routed =>
        /\ ~HasOp("OVERFLOW")
        /\ \A i \in 1..Len(Installed) : Len(Installed[i].a.ipopts) <= SizeofIpopts

\* what the code does: up to seven addresses after the "@", the
\* destination counted, stay within ipopts; the eighth is written beyond
\* it, and the option then installed is longer than ipopts
C39_WithinIpoptsUpToSeven ==
    Routed =>
        /\ 3 + 4 * Len(Written) <= SizeofIpopts =>
              /\ ~HasOp("OVERFLOW")
              /\ \A i \in 1..Len(Installed) :
                     Len(Installed[i].a.ipopts) <= SizeofIpopts
        /\ 3 + 4 * Len(Written) > SizeofIpopts =>
              \A i \in 1..Len(Installed) :
                  /\ HasOp("OVERFLOW")
                  /\ Len(Installed[i].a.ipopts) > SizeofIpopts

\* seven hops and the destination: an option of 36 bytes is installed
C39_LongOptionInstalled ==
    /\ Routed
    /\ Len(Written) = 8
    /\ Installed # <<>>
    /\ Len(Installed[1].a.ipopts) = 36

====
